---- MODULE Spec2Model ----
(***************************************************************************)
(* HYVR object-based facies simulation (src/src/hyvr/sim.py, grid.py).     *)
(*                                                                         *)
(* The model follows facies(): sequence contacts, allocation of the        *)
(* architectural-element (AE) units, AE contact surfaces, the object       *)
(* generators painting the shared voxel fields, and the final renumbering. *)
(*                                                                         *)
(* Lengths are integers.  One cell height dz is DZ = 2*NX length units, so *)
(* that the mean of NX column elevations that are multiples of dz, and a   *)
(* grid origin of half a cell, are exact integers.  The horizontal grid is *)
(* one row of NX columns (ny = 1); the vertical grid has NZ cells.         *)
(***************************************************************************)
EXTENDS Integers, Sequences, FiniteSets, TLC

VARIABLES
    pc,          \* position in facies(): "seq", "alloc_seq", "alloc_unit", "contact", ...
    err,         \* name of the exception that ended the run ("" while running)
    mg,          \* the grid: [oz]; nx, ny, nz, dz are NX, 1, NZ, DZ
    sequences,   \* the `sequences` dictionary (n is len(l_seq))
    elements,    \* the architectural-element dictionaries
    si,          \* loop index over sequences
    z_bot,       \* lower contact surface, one elevation per column
    seq_top_z,   \* stored sequence top surfaces
    seq_arr,     \* sequence-id field
    ae_lu,       \* AE lookup table
    count,       \* the counter `count` of facies()
    znow,        \* running depth of the allocation loop
    ae_i,        \* loop index over ae_lu (contact surfaces, generators)
    ae_arr,      \* AE-id field
    mat,         \* material field of facies()
    fac,         \* facies field
    azim,        \* azimuth field
    dip,         \* dip field
    props_n,     \* the arrays of the generator that is running or has just returned
    g,           \* loop state of the running generator: [levels, k]
    props,       \* the property collection facies() returns
    zb_created,  \* history: z_bottom of each row as written at creation
    zb_log,      \* history: every write of a row's z_bottom, <<id, position>>
    gen_log,     \* history: ids of the units a generator was called for, in call order
    gen_done,    \* history: ids of the units whose generator has returned
    instances,   \* history: [unit, mat, n] of each geometric instance given an id
    runs,        \* two runs of the core's draw sequence side by side, each with its generators
    call         \* one call of a function studied on its own: [fn, arguments, raised, ret, done]

\* the fields and the generator state; the two groups of history variables
fvars == <<mat, fac, azim, dip, props_n, g, props>>
zhist == <<zb_created, zb_log>>
ghist == <<gen_log, gen_done, instances>>

\* the state of facies(); the state of the studies of single functions
facies_vars == <<pc, err, mg, sequences, elements, si, z_bot, seq_top_z, seq_arr, ae_lu,
                 count, znow, ae_i, ae_arr, fvars, zhist, ghist>>
side == <<runs, call>>

vars == <<facies_vars, side>>

----------------------------------------------------------------------------
\* Bounds of the model

\* columns of the grid (mg.nx, with mg.ny = 1)
NX == 2
\* cells in z (mg.nz)
NZ == 3
\* most sequences in a parameter set
MaxSeq == 3
\* most rows the allocation loop may append before the model stops following it
MaxUnits == 3
\* a rounded random contact departs from its mean level by at most MaxDev cells
MaxDev == 1
\* a thickness draw departs from its mean by at most MaxSigma standard deviations
MaxSigma == 3

\* cell height in length units
DZ == 2 * NX

Cols == 1..NX
Levels == 0..(NZ - 1)
Voxels == Cols \X Levels

----------------------------------------------------------------------------
\* Arithmetic helpers

Abs(x) == IF x < 0 THEN -x ELSE x
Min2(a, b) == IF a < b THEN a ELSE b
Max2(a, b) == IF a > b THEN a ELSE b

RECURSIVE SumTo(_, _)
SumTo(f, n) == IF n = 0 THEN 0 ELSE f[n] + SumTo(f, n - 1)

\* np.mean / np.max / np.min of a 2-D surface (one value per column)
Mean(f) == SumTo(f, NX) \div NX
MaxOf(f) == CHOOSE m \in {f[c] : c \in Cols} : \A c \in Cols : f[c] <= m
MinOf(f) == CHOOSE m \in {f[c] : c \in Cols} : \A c \in Cols : f[c] >= m

Flat(z) == [c \in Cols |-> z]

----------------------------------------------------------------------------
\* Grid (grid.py)

\* Grid.get_lz: dz * nz - oz
lz == DZ * NZ - mg.oz

\* number of entries of zv = np.arange(oz, lz + oz, dz) in Grid.vec
VecLenZ == IF lz <= 0 THEN 0 ELSE (lz + DZ - 1) \div DZ

\* z coordinate of level k in Grid.meshup
zzz(k) == mg.oz + k * DZ

\* horizontal lengths are integers as well: a column is DX units wide, ox = 0
DX == 2

\* Grid.get_lx with ox = 0
lx == DX * NX

\* x coordinate of column c in Grid.vec: np.arange(dx / 2, lx, dx); the one row has y = 0
xxx(c) == DX * c - DX \div 2

\* np.around(n / d) for d > 0: halves go to the even neighbour
RoundHalfEven(n, d) ==
    LET q == n \div d
        r == n - q * d
    IN  IF 2 * r < d THEN q
        ELSE IF 2 * r > d THEN q + 1
        ELSE IF q % 2 = 0 THEN q ELSE q + 1

\* Grid.idx_z: int(np.around((zval - oz) / dz))
idx_z(zval) == RoundHalfEven(zval - mg.oz, DZ)

\* np.arange(start, stop, step) for step > 0
Arange(start, stop, step) ==
    LET n == IF stop <= start THEN 0 ELSE (stop - start + step - 1) \div step
    IN  [j \in 1..n |-> start + (j - 1) * step]

Range(s) == { s[i] : i \in 1..Len(s) }

----------------------------------------------------------------------------
\* Parameter sets (the inputs of facies())

\* elements: the architectural-element dictionaries by element name; tc is the
\* contact model configured for the trough element
Elements(tc) ==
    [ sheet   |-> [geometry |-> "sheet", contact |-> "flat", structure |-> "massive",
                   lens_thickness |-> -1, l_facies |-> <<1>>, r_bg |-> <<0, 0, 0>>,
                   r_dip |-> <<0, 0>>],
      trough  |-> [geometry |-> "trunc_ellip", contact |-> tc, structure |-> "flat",
                   length |-> 3 * DX, width |-> 3 * DX, depth |-> DZ, agg |-> 2 * DZ,
                   r_paleoflow |-> <<0, 0>>, r_azimuth |-> <<30, 30>>,
                   r_dip |-> <<10, 10>>, l_facies |-> <<2>>, r_bg |-> <<0, 0, 0>>],
      channel |-> [geometry |-> "channel", contact |-> "flat", structure |-> "massive",
                   channel_no |-> 1, width |-> 2 * DX, depth |-> DZ,
                   r_mig |-> <<0, 0, DZ>>, r_dip |-> <<0, 0>>, l_facies |-> <<3>>,
                   r_bg |-> <<0, 0, 0>>] ]

\* mean unit thickness configured for an element type (ll_ae_z_mean entries)
ZMean(ae) == CASE ae = "sheet"   -> DZ
               [] ae = "trough"  -> (3 * DZ) \div 2
               [] ae = "channel" -> DZ \div 2

\* probabilities are kept in parts per thousand, the resolution of prob_choose
EvenProbs(c) == [i \in 1..Len(c) |-> 1000 \div Len(c)]

\* r_seq_top as configured for n sequences: one cell each, the last up to the domain top
ConfiguredTops(n) == [i \in 1..n |-> IF i = n THEN DZ * NZ ELSE i * DZ]

\* the `sequences` dictionary: n sequences with contact model c, where sequence i
\* has the element list cat[i] and the avulsion probability ap[i]
Sequences(n, c, cat, ap) ==
    [ n            |-> n,
      seq_contact  |-> c,
      r_seq_top    |-> ConfiguredTops(n),
      r_seq_bot    |-> [i \in 1..n |-> 0],
      ll_seq_ae    |-> cat,
      ll_ae_prob   |-> [i \in 1..n |-> EvenProbs(cat[i])],
      ll_ae_z_mean |-> [i \in 1..n |-> [j \in 1..Len(cat[i]) |-> ZMean(cat[i][j])]],
      ll_avul_prob |-> ap,
      ll_avul      |-> [i \in 1..n |-> <<DZ, DZ>>],
      r_bg         |-> <<0, 0, 0>> ]

\* one sequence: a sheet/channel catalog, a trough/sheet catalog with avulsion and
\* either contact model of the trough, and the empty catalog
SingleSeqParams ==
    { [sequences |-> Sequences(1, "flat", <<<<"sheet", "channel">>>>, <<0>>),
       elements  |-> Elements("flat")],
      [sequences |-> Sequences(1, "flat", <<<<>>>>, <<0>>),
       elements  |-> Elements("flat")] }
    \cup
    { [sequences |-> Sequences(1, "flat", <<<<"trough", "sheet">>>>, <<500>>),
       elements  |-> Elements(tc)] : tc \in {"flat", "random"} }

\* several sequences of sheets, with flat and with random sequence contacts
MultiSeqParams ==
    { [sequences |-> Sequences(n, c, [i \in 1..n |-> <<"sheet">>], [i \in 1..n |-> 0]),
       elements  |-> Elements("flat")] :
      n \in 2..MaxSeq, c \in {"flat", "random"} }

\* the elements with the sheet in another mode: lens thickness lt (-1 for massive
\* bedding) and dip range rd
ElementsWith(tc, lt, rd) ==
    [Elements(tc) EXCEPT !.sheet.lens_thickness = lt, !.sheet.r_dip = rd]

\* one sequence of troughs with random contacts and sheets: massive or in lenses
\* of one cell, without and with dip sets
SheetParams ==
    { [sequences |-> Sequences(1, "flat", <<<<"trough", "sheet">>>>, <<0>>),
       elements  |-> ElementsWith("random", lt, rd)] :
      lt \in {-1, DZ}, rd \in {<<0, 0>>, <<0, 10>>} }

\* two sequences with flat contacts, each with one element type of any geometry
GeometryParams ==
    { [sequences |-> Sequences(2, "flat", << <<a>>, <<b>> >>, <<0, 0>>),
       elements  |-> Elements("flat")] :
      a \in {"sheet", "trough", "channel"}, b \in {"sheet", "trough", "channel"} }

\* one sequence whose only element type is a sheet without dip and with one facies,
\* massive or in lenses of one cell, of a mean thickness of one cell or of the domain
SheetOnlyParams ==
    { [sequences |-> [Sequences(1, "flat", << <<"sheet">> >>, <<0>>)
                         EXCEPT !.ll_ae_z_mean = << <<zm>> >>],
       elements  |-> ElementsWith("flat", lt, <<0, 0>>)] :
      lt \in {-1, DZ}, zm \in {DZ, NZ * DZ} }

ParamSets ==
    SingleSeqParams \cup MultiSeqParams \cup SheetParams \cup GeometryParams
        \cup SheetOnlyParams

----------------------------------------------------------------------------
\* Random draws

\* hu.round_x(hu.specsim(...) + c, base=dz): a multiple of dz, within MaxDev cells of c
RandLevels(c) ==
    { m * DZ : m \in { k \in ((c \div DZ) - MaxDev - 1)..((c \div DZ) + MaxDev + 1) :
                       Abs(k * DZ - c) <= MaxDev * DZ } }

\* a rounded random contact surface around level c
RandSurfaces(c) == [Cols -> RandLevels(c)]

\* prob_choose: the candidates replicated int(prob * 1000) times, one drawn uniformly
prob_choose(choices, probs) ==
    { choices[i] : i \in { j \in 1..Len(choices) : probs[j] >= 1 } }

\* prob_choose raises IndexError: probs shorter than choices, or nothing to draw from
prob_choose_raises(choices, probs) ==
    IF Len(probs) < Len(choices) THEN TRUE
    ELSE prob_choose(choices, probs) = {}

\* hu.round_x(np.random.normal(m, m * 0.1), base=dz)
ThicknessDraws(m) ==
    { k * DZ : k \in { j \in (-1)..((m \div DZ) + MaxSigma + 1) :
                       10 * Abs(j * DZ - m) <= 5 * DZ + MaxSigma * m } }

\* np.random.uniform(avudr[0], avudr[1]): the end points of the range
AvulDraws(avudr) == {avudr[1], avudr[2]}

IndexOf(s, x) == CHOOSE i \in 1..Len(s) : s[i] = x

\* save_arrays, lines 1333-1356: mat, fac, azim and dip filled with the background
save_arrays(bg, mat_count) ==
    [mat  |-> [v \in Voxels |-> mat_count],
     fac  |-> [v \in Voxels |-> bg[1]],
     azim |-> [v \in Voxels |-> bg[2]],
     dip  |-> [v \in Voxels |-> bg[3]]]

----------------------------------------------------------------------------
\* facies(): sequence contacts (lines 75-111)

Raise(e) ==
    /\ pc' = "error"
    /\ err' = e

\* lines 107-111: only one sequence present
SeqSingle ==
    /\ UNCHANGED side
    /\ pc = "seq"
    /\ sequences.n = 1
    /\ seq_arr' = [v \in Voxels |-> 0]
    /\ sequences' = [sequences EXCEPT !.r_seq_bot = <<mg.oz>>, !.r_seq_top = <<mg.oz + lz>>]
    /\ pc' = "alloc_seq"
    /\ si' = 0
    /\ UNCHANGED <<err, mg, elements, z_bot, seq_top_z, ae_lu, count, znow, ae_i, ae_arr,
                   fvars, zhist, ghist>>

\* the top contact drawn for sequence s (lines 84-92)
SeqTopChoices(s) ==
    IF sequences.seq_contact = "random" /\ s # sequences.n - 1
    THEN RandSurfaces(sequences.r_seq_top[s + 1])
    ELSE {Flat(sequences.r_seq_top[s + 1])}

\* zae of lines 101 and 188: zzz >= z_bot_arr and zzz < z_top_arr
InInterval(v, bot, top) == zzz(v[2]) >= bot[v[1]] /\ zzz(v[2]) < top[v[1]]

\* lines 83-105: one pass of the loop over the sequences
SeqContact ==
    /\ UNCHANGED side
    /\ pc = "seq"
    /\ sequences.n > 1
    /\ si < sequences.n
    /\ IF VecLenZ # NZ
       THEN \* zzz and z_bot_arr differ in shape: the comparison of line 101 raises
            /\ Raise("ValueError")
            /\ UNCHANGED <<sequences, si, z_bot, seq_top_z, seq_arr>>
       ELSE \E z_top \in SeqTopChoices(si) :
            /\ sequences' = [sequences EXCEPT
                   !.r_seq_bot[si + 1] = Max2(Mean(z_bot), mg.oz),
                   !.r_seq_top[si + 1] = Min2(Mean(z_top), mg.oz + lz)]
            /\ seq_arr' = [v \in Voxels |->
                              IF InInterval(v, z_bot, z_top) THEN si ELSE seq_arr[v]]
            /\ z_bot' = z_top
            /\ seq_top_z' = Append(seq_top_z, z_top)
            /\ si' = si + 1
            /\ UNCHANGED <<pc, err>>
    /\ UNCHANGED <<mg, elements, ae_lu, count, znow, ae_i, ae_arr, fvars, zhist, ghist>>

\* the loop over the sequences is exhausted: on to the AE units (lines 129-134)
SeqContactEnd ==
    /\ UNCHANGED side
    /\ pc = "seq"
    /\ sequences.n > 1
    /\ si = sequences.n
    /\ pc' = "alloc_seq"
    /\ si' = 0
    /\ UNCHANGED <<err, mg, sequences, elements, z_bot, seq_top_z, seq_arr, ae_lu, count,
                   znow, ae_i, ae_arr, fvars, zhist, ghist>>

----------------------------------------------------------------------------
\* facies(): AE unit allocation (lines 129-159)

\* lines 134-136: enter sequence si
AllocSeq ==
    /\ UNCHANGED side
    /\ pc = "alloc_seq"
    /\ si < sequences.n
    /\ znow' = sequences.r_seq_bot[si + 1]
    /\ pc' = "alloc_unit"
    /\ UNCHANGED <<err, mg, sequences, elements, si, z_bot, seq_top_z, seq_arr, ae_lu,
                   count, ae_i, ae_arr, fvars, zhist, ghist>>

\* the condition of the while loop, line 137
AllocGuard == znow < Min2(lz, sequences.r_seq_top[si + 1])

\* a row whose id runs one ahead of its position in the table
AeRowIdAhead(c, zb, ae_z, ae, s) ==
    [id |-> c + 1, z_bottom |-> zb, z_top |-> Min2(ae_z + zb, lz), ae |-> ae, seq |-> s]

\* lines 139-148: the row [count, znow, z_top, ae, si] of the lookup table
AeRow(c, zb, ae_z, ae, s) ==
    [id |-> c, z_bottom |-> zb, z_top |-> Min2(ae_z + zb, lz), ae |-> ae, seq |-> s]

\* lines 139-159: one unit is appended to the lookup table
AllocUnit ==
    /\ UNCHANGED side
    /\ pc = "alloc_unit"
    /\ AllocGuard
    /\ Len(ae_lu) < MaxUnits
    /\ LET l_ae   == sequences.ll_seq_ae[si + 1]
           l_prob == sequences.ll_ae_prob[si + 1]
           avul_prob == sequences.ll_avul_prob[si + 1]
       IN
       IF prob_choose_raises(l_ae, l_prob)
       THEN /\ Raise("IndexError")
            /\ UNCHANGED <<ae_lu, count, znow, zhist>>
       ELSE \E ae \in prob_choose(l_ae, l_prob) :
            \E ae_z \in ThicknessDraws(sequences.ll_ae_z_mean[si + 1][IndexOf(l_ae, ae)]) :
            \E yn \in prob_choose(<<-1, 0>>, <<avul_prob, 1000 - avul_prob>>) :
            \E u \in AvulDraws(sequences.ll_avul[si + 1]) :
            /\ ae_lu' = Append(ae_lu, AeRow(count, znow, ae_z, ae, si))
            /\ znow' = znow + ae_z + u * yn
            /\ count' = count + 1
            /\ zb_created' = Append(zb_created, znow)
            /\ zb_log' = Append(zb_log, <<count, "create">>)
            /\ UNCHANGED <<pc, err>>
    /\ UNCHANGED <<mg, sequences, elements, si, z_bot, seq_top_z, seq_arr, ae_i, ae_arr,
                   fvars, ghist>>

\* the while loop of line 137 ends: next sequence
AllocSeqEnd ==
    /\ UNCHANGED side
    /\ pc = "alloc_unit"
    /\ ~AllocGuard
    /\ si' = si + 1
    /\ pc' = "alloc_seq"
    /\ UNCHANGED <<err, mg, sequences, elements, z_bot, seq_top_z, seq_arr, ae_lu, count,
                   znow, ae_i, ae_arr, fvars, zhist, ghist>>

\* the for loop of line 134 ends; lines 161-164 start the contact surfaces
AllocEnd ==
    /\ UNCHANGED side
    /\ pc = "alloc_seq"
    /\ si = sequences.n
    /\ z_bot' = Flat(0)
    /\ ae_arr' = [v \in Voxels |-> 0]
    /\ ae_i' = 0
    /\ pc' = "contact"
    /\ UNCHANGED <<err, mg, sequences, elements, si, seq_top_z, seq_arr, ae_lu, count, znow,
                   fvars, zhist, ghist>>

----------------------------------------------------------------------------
\* facies(): AE contact surfaces (lines 161-198)

Erosive(ae) == elements[ae].geometry \in {"trunc_ellip", "channel"}

\* top surfaces that ignore the contact of the parent sequence: the last unit of a
\* sequence gets a flat top at its own z_top
AeTopChoicesNominal(r) ==
    LET ae_z == ae_lu[r + 1] IN
    IF r = Len(ae_lu) - 1
    THEN {[surf |-> Flat(lz), z_top |-> ae_z.z_top]}
    ELSE IF elements[ae_z.ae].contact = "random" /\ ae_lu[r + 2].seq = ae_z.seq
    THEN {[surf |-> f, z_top |-> Mean(f)] : f \in RandSurfaces(ae_z.z_top)}
    ELSE {[surf |-> Flat(ae_z.z_top), z_top |-> ae_z.z_top]}

\* lines 168-183: the top surface of row r (0-based), and the z_top the row then holds
AeTopChoices(r) ==
    LET ae_z == ae_lu[r + 1] IN
    IF r = Len(ae_lu) - 1
    THEN {[surf |-> Flat(lz), z_top |-> ae_z.z_top]}
    ELSE IF ae_lu[r + 2].seq # ae_z.seq
    THEN {[surf |-> seq_top_z[ae_z.seq + 1], z_top |-> ae_z.z_top]}
    ELSE IF elements[ae_z.ae].contact = "random"
    THEN {[surf |-> f, z_top |-> Mean(f)] : f \in RandSurfaces(ae_z.z_top)}
    ELSE {[surf |-> Flat(ae_z.z_top), z_top |-> ae_z.z_top]}

\* a write-back that takes the mean of the bottom surface for every geometry
ContactZBottomMean(ae, bot) == Mean(bot)

\* lines 193-196: the z_bottom written back to the row
ContactZBottom(ae, bot) == IF Erosive(ae) THEN MaxOf(bot) ELSE MinOf(bot)

\* lines 166-198: one pass of the loop over the lookup table
AeContact ==
    /\ UNCHANGED side
    /\ pc = "contact"
    /\ ae_i < Len(ae_lu)
    /\ IF VecLenZ # NZ
       THEN \* the comparison of line 188 raises on the shapes
            /\ Raise("ValueError")
            /\ UNCHANGED <<ae_lu, ae_arr, z_bot, ae_i, zb_log>>
       ELSE \E t \in AeTopChoices(ae_i) :
            LET ae_z == ae_lu[ae_i + 1] IN
            /\ ae_arr' = [v \in Voxels |->
                             IF InInterval(v, z_bot, t.surf) /\ seq_arr[v] = ae_z.seq
                             THEN ae_z.id ELSE ae_arr[v]]
            /\ ae_lu' = [ae_lu EXCEPT ![ae_i + 1].z_top = t.z_top,
                                      ![ae_i + 1].z_bottom = ContactZBottom(ae_z.ae, z_bot)]
            /\ zb_log' = Append(zb_log, <<ae_z.id, "contact">>)
            /\ z_bot' = t.surf
            /\ ae_i' = ae_i + 1
            /\ UNCHANGED <<pc, err>>
    /\ UNCHANGED <<mg, sequences, elements, si, seq_top_z, seq_arr, count, znow, zb_created,
                   fvars, ghist>>

\* lines 212-214: the loop of line 166 ends; the storage arrays are initialised
AeContactEnd ==
    /\ UNCHANGED side
    /\ pc = "contact"
    /\ ae_i = Len(ae_lu)
    /\ count' = 1
    /\ LET a == save_arrays(sequences.r_bg, 1) IN
       /\ mat' = a.mat
       /\ fac' = a.fac
       /\ azim' = a.azim
       /\ dip' = a.dip
    /\ ae_i' = 0
    /\ pc' = "gen"
    /\ UNCHANGED <<err, mg, sequences, elements, si, z_bot, seq_top_z, seq_arr, ae_lu,
                   znow, ae_arr, props_n, g, props, zhist, ghist>>

----------------------------------------------------------------------------
\* gen_sheet (lines 1102-1187)

\* lines 1125 and 1160: the element asks for dip sets
SheetHasDip(sh) == sh.r_dip[1] # sh.r_dip[2]

\* line 1150: np.arange(ae_i[1], ae_i[2] * 1.1, z_lens_thick), the lens bottoms
LensLevels(sh, ae) ==
    LET n == Len(Arange(10 * ae.z_bottom, 11 * ae.z_top, 10 * sh.lens_thickness))
    IN  [j \in 1..n |-> ae.z_bottom + (j - 1) * sh.lens_thickness]

\* lines 1155-1157: the levels of z_range for the lens that starts at zl; a negative
\* index counts from the top of the array
LensRange(sh, zl) ==
    { IF k < 0 THEN k + NZ ELSE k :
         k \in idx_z(zl)..(Min2(idx_z(zl + sh.lens_thickness), NZ) - 1) }

\* the number of facies draws gen_sheet makes: one, or one per lens
SheetDraws(sh, ae) == IF sh.lens_thickness = -1 THEN 1 ELSE Len(LensLevels(sh, ae))

\* lines 1153-1181 without dip: lenses j..n are written over the arrays a, every
\* column of the levels of a lens at once; cnt is the counter before lens j
RECURSIVE SheetLenses(_, _, _, _, _, _)
SheetLenses(sh, ae, a, cnt, fs, j) ==
    LET lev == LensLevels(sh, ae) IN
    IF j > Len(lev) THEN [mat |-> a.mat, fac |-> a.fac, azim |-> a.azim, dip |-> a.dip,
                          count |-> cnt]
    ELSE LET zr == LensRange(sh, lev[j])
             put(field, val) == [v \in Voxels |-> IF v[2] \in zr THEN val ELSE field[v]]
         IN  SheetLenses(sh, ae,
                         [mat  |-> put(a.mat, cnt + 1), fac |-> put(a.fac, fs[j]),
                          azim |-> put(a.azim, 0), dip |-> put(a.dip, 0)],
                         cnt + 1, fs, j + 1)

\* gen_sheet without dip sets: the arrays and the counter returned; massive bedding
\* (lines 1121-1139) paints the unit's own cells, lenses (lines 1142-1181) whole levels
gen_sheet(sh, ae, ae_array, cnt, fs) ==
    LET a == save_arrays(<<0, 0, 0>>, 0)
        own(v) == ae_array[v] = ae.id
    IN  IF sh.lens_thickness = -1
        THEN [mat   |-> [v \in Voxels |-> IF own(v) THEN cnt + 1 ELSE a.mat[v]],
              fac   |-> [v \in Voxels |-> IF own(v) THEN fs[1] ELSE a.fac[v]],
              azim  |-> [v \in Voxels |-> IF own(v) THEN 0 ELSE a.azim[v]],
              dip   |-> [v \in Voxels |-> IF own(v) THEN 0 ELSE a.dip[v]],
              count |-> cnt + 1]
        ELSE SheetLenses(sh, ae, a, cnt, fs, 1)

\* the instances a sheet is made of: the body of a massive sheet, or its lenses,
\* each with its material id and the number of the unit's cells it holds
SheetInstances(sh, ae, ae_array, cnt) ==
    LET own == { v \in Voxels : ae_array[v] = ae.id } IN
    IF sh.lens_thickness = -1
    THEN << [unit |-> ae.id, mat |-> cnt + 1, n |-> Cardinality(own)] >>
    ELSE [j \in 1..Len(LensLevels(sh, ae)) |->
             [unit |-> ae.id, mat |-> cnt + j,
              n |-> Cardinality({ v \in own : v[2] \in LensRange(sh, LensLevels(sh, ae)[j]) })]]

----------------------------------------------------------------------------
\* gen_trough (lines 527-701)

\* rand_trough, lines 799-818, without a vertical trend
rand_trough(tr) == [a |-> tr.length \div 2, b |-> tr.width \div 2, c |-> tr.depth]

\* the angles used, in degrees: the quarter turns and the turns by the angles of the
\* 3-4-5 triangle (atan(3/4) and atan(4/3), named 37 and 53 after their rounded
\* degrees), whose cosine and sine are whole fifths
Angles == {0, 37, 53, 90, 127, 143, 180, 217, 233, 270, 307, 323}

\* five times the cosine and five times the sine of an angle
Cos(alpha) == CASE alpha = 0 -> 5    [] alpha = 37 -> 4   [] alpha = 53 -> 3
                [] alpha = 90 -> 0   [] alpha = 127 -> -3 [] alpha = 143 -> -4
                [] alpha = 180 -> -5 [] alpha = 217 -> -4 [] alpha = 233 -> -3
                [] alpha = 270 -> 0  [] alpha = 307 -> 3  [] alpha = 323 -> 4
Sin(alpha) == Cos((alpha + 270) % 360)

\* a membership test that leaves out the mixed terms 2 x y cos(alpha) sin(alpha)
scale_rotateNoMixedTerm(x, y, z, alpha, a, b, c) ==
    LET cs == Cos(alpha)
        sn == Sin(alpha)
        ta == x * x * cs * cs + y * y * sn * sn
        tb == x * x * sn * sn + y * y * cs * cs
    IN  /\ ta * b * b * c * c + tb * a * a * c * c + 25 * z * z * a * a * b * b
              <= 25 * a * a * b * b * c * c
        /\ z <= 0

\* scale_rotate, lines 704-737: R2 <= 1 and z <= 0, with R2 multiplied out by
\* (5 a b c)^2
scale_rotate(x, y, z, alpha, a, b, c) ==
    LET cs == Cos(alpha)
        sn == Sin(alpha)
        ta == x * x * cs * cs + 2 * x * y * cs * sn + y * y * sn * sn
        tb == x * x * sn * sn - 2 * x * y * cs * sn + y * y * cs * cs
    IN  /\ ta * b * b * c * c + tb * a * a * c * c + 25 * z * z * a * a * b * b
              <= 25 * a * a * b * b * c * c
        /\ z <= 0

\* lines 547-556: the arrays a trough starts from
TroughArrays(tr, ae, ae_array, cnt) ==
    LET a == save_arrays(tr.r_bg, cnt) IN
    [mat |-> a.mat, fac |-> a.fac, azim |-> a.azim, dip |-> a.dip,
     ae_arr_i |-> [v \in Voxels |-> IF ae_array[v] = ae.id THEN ae.id ELSE 0]]

\* lines 558-565: the elevations of the ellipsoid centres
TroughLevels(tr, ae) ==
    LET tr_bot == ae.z_bottom
        tr_top == Max2(ae.z_top, tr_bot) + tr.agg
    IN  Arange(tr_bot, tr_top, tr.agg)

\* np.random.uniform(0, mg.lx): the centres of the columns
TroughCentres == { xxx(c) : c \in Cols }

\* lines 586-602: the cells of the ellipsoid centred at (xnow, 0, zc)
TroughSelect(tr, ae, ae_array, xnow, zc, alpha) ==
    LET e == rand_trough(tr) IN
    { v \in Voxels : /\ scale_rotate(xxx(v[1]) - xnow, 0, zzz(v[2]) - zc, alpha, e.a, e.b, e.c)
                     /\ ae_array[v] <= ae.id }

\* lines 565-694: one ellipsoid of a trough with the 'flat' structure; one ellipsoid
\* is drawn per level (el_z * lx * ly = 1)
TroughEllipsoid ==
    /\ UNCHANGED side
    /\ pc = "trough"
    /\ LET ae == ae_lu[ae_i + 1]
           tr == elements[ae.ae]
           zc == g.levels[g.k + 1]
       IN
       \E xnow \in TroughCentres :
       \E alpha \in Range(tr.r_paleoflow) :
       \E angnow \in Range(tr.r_azimuth) :
       \E dipnow \in Range(tr.r_dip) :
       \E f \in Range(tr.l_facies) :
       LET select == TroughSelect(tr, ae, ae_arr, xnow, zc, alpha) IN
       /\ props_n' = [mat  |-> [v \in Voxels |-> IF v \in select THEN count ELSE props_n.mat[v]],
                      fac  |-> [v \in Voxels |-> IF v \in select THEN f ELSE props_n.fac[v]],
                      azim |-> [v \in Voxels |-> IF v \in select THEN angnow ELSE props_n.azim[v]],
                      dip  |-> [v \in Voxels |-> IF v \in select THEN dipnow ELSE props_n.dip[v]],
                      ae_arr_i |-> [v \in Voxels |->
                                       IF v \in select THEN ae.id ELSE props_n.ae_arr_i[v]]]
       /\ instances' = Append(instances,
                              [unit |-> ae.id, mat |-> count, n |-> Cardinality(select)])
       /\ count' = count + 1
       /\ g' = [g EXCEPT !.k = g.k + 1]
       /\ IF g.k + 1 = Len(g.levels)
          THEN /\ pc' = "update"
               /\ gen_done' = Append(gen_done, ae.id)
          ELSE UNCHANGED <<pc, gen_done>>
    /\ UNCHANGED <<err, ae_lu, ae_i, ae_arr, mg, sequences, elements, si, z_bot, seq_top_z,
                   seq_arr, znow, mat, fac, azim, dip, props, zhist, gen_log>>

----------------------------------------------------------------------------
\* gen_channel (lines 825-970)

\* lines 847-853: the arrays a channel starts from
ChannelArrays(ch_par, seq, ae_array, cnt) ==
    LET a == save_arrays(ch_par.r_bg, cnt) IN
    [mat |-> a.mat, fac |-> a.fac, azim |-> a.azim, dip |-> a.dip,
     ae_arr_i |-> [v \in Voxels |-> IF ae_array[v] = seq.id THEN seq.id ELSE 0]]

\* lines 866-873: the elevations of the channel tops
ChannelLevels(ch_par, seq) ==
    Arange(seq.z_bottom, seq.z_top + ch_par.r_mig[3], ch_par.r_mig[3])

\* ferguson_channel, lines 973-1054: the centreline left after the points outside
\* the domain are removed: none, one point in the first column, a point in each column
CentreLines ==
    { <<>>,
      << [x |-> xxx(1), y |-> 0, vx |-> 1, vy |-> 0] >>,
      [c \in Cols |-> [x |-> xxx(c), y |-> 0, vx |-> 1, vy |-> 0]] }

\* lines 893-911: the squared distance of column c to the nearest point of the centreline
Dist2(aha, c) ==
    LET d2(i) == (xxx(c) - aha[i].x) * (xxx(c) - aha[i].x) + aha[i].y * aha[i].y
    IN  CHOOSE d \in { d2(i) : i \in 1..Len(aha) } : \A i \in 1..Len(aha) : d <= d2(i)

\* lines 936-937: d_range holds at least one level
DRangeFinite(zc, z_ch_depth) == Max2(0, idx_z(zc - z_ch_depth)) < Min2(NZ, idx_z(zc))

\* line 940, multiplied out by (2 * z_ch_depth)^2
in_channel(aha, v, zc, z_ch_width, z_ch_depth) ==
    LET t == (idx_z(zc) - v[2]) * DZ * z_ch_width IN
    4 * z_ch_depth * z_ch_depth * Dist2(aha, v[1])
        <= z_ch_width * z_ch_width * z_ch_depth * z_ch_depth - t * t

\* lines 940-943: chan_mask; the velocity is finite wherever a centreline exists
ChanMask(ch_par, seq, ae_array, aha, zc) ==
    { v \in Voxels : /\ in_channel(aha, v, zc, ch_par.width, ch_par.depth)
                     /\ ae_array[v] <= seq.id }

\* line 956: azimuth of the velocity (vx, vy), to one degree, for axis-parallel flow
Azim2d(vx, vy) == CASE vx > 0 /\ vy = 0 -> 0
                    [] vx = 0 /\ vy > 0 -> -90
                    [] vx < 0 /\ vy = 0 -> -180
                    [] vx = 0 /\ vy < 0 -> 90

\* lines 873-961: one channel at one elevation (channel_no = 1, no dip sets, no lag)
ChannelPass ==
    /\ UNCHANGED side
    /\ pc = "channel"
    /\ LET seq == ae_lu[ae_i + 1]
           ch_par == elements[seq.ae]
           zc == g.levels[g.k + 1]
           last == g.k + 1 = Len(g.levels)
       IN
       \E aha \in CentreLines :
       IF aha = <<>>
       THEN \* outputs[0, 1] of line 1044 on an empty centreline
            /\ Raise("IndexError")
            /\ UNCHANGED <<props_n, count, g, gen_done, instances>>
       ELSE /\ IF DRangeFinite(zc, ch_par.depth)
               THEN \E f \in Range(ch_par.l_facies) :
                    LET chan_mask == ChanMask(ch_par, seq, ae_arr, aha, zc)
                        av == Azim2d(aha[1].vx, aha[1].vy)
                        put(field, val) == [v \in Voxels |->
                                               IF v \in chan_mask THEN val ELSE field[v]]
                    IN
                    /\ props_n' = [mat  |-> put(props_n.mat, count),
                                   fac  |-> put(props_n.fac, f),
                                   azim |-> put(props_n.azim, av),
                                   dip  |-> put(props_n.dip, 0),
                                   ae_arr_i |-> put(props_n.ae_arr_i, seq.id)]
                    /\ instances' = Append(instances, [unit |-> seq.id, mat |-> count,
                                                       n |-> Cardinality(chan_mask)])
                    /\ count' = count + 1
               ELSE UNCHANGED <<props_n, count, instances>>
            /\ g' = [g EXCEPT !.k = g.k + 1]
            /\ IF last
               THEN /\ pc' = "update"
                    /\ gen_done' = Append(gen_done, seq.id)
                    /\ err' = err
               ELSE UNCHANGED <<pc, err, gen_done>>
    /\ UNCHANGED <<ae_lu, ae_i, ae_arr, mg, sequences, elements, si, z_bot, seq_top_z,
                   seq_arr, znow, mat, fac, azim, dip, props, zhist, gen_log>>

----------------------------------------------------------------------------
\* facies(): hydrofacies simulation (lines 216-262)

\* lines 218-242: the generator of the next unit is called; gen_sheet runs to its
\* return, gen_trough and gen_channel up to their loops
GenBegin ==
    /\ UNCHANGED side
    /\ pc = "gen"
    /\ ae_i < Len(ae_lu)
    /\ LET ae == ae_lu[ae_i + 1]
           ae_dict == elements[ae.ae]
       IN
       /\ gen_log' = Append(gen_log, ae.id)
       /\ CASE ae_dict.geometry = "trunc_ellip" ->
                 /\ props_n' = TroughArrays(ae_dict, ae, ae_arr, count)
                 /\ count' = count + 1
                 /\ g' = [levels |-> TroughLevels(ae_dict, ae), k |-> 0]
                 /\ pc' = "trough"
                 /\ UNCHANGED <<err, gen_done, instances>>
            [] ae_dict.geometry = "channel" ->
                 /\ props_n' = ChannelArrays(ae_dict, ae, ae_arr, count)
                 /\ g' = [levels |-> ChannelLevels(ae_dict, ae), k |-> 0]
                 /\ IF ChannelLevels(ae_dict, ae) = <<>>
                    THEN /\ pc' = "update"
                         /\ gen_done' = Append(gen_done, ae.id)
                    ELSE /\ pc' = "channel"
                         /\ UNCHANGED gen_done
                 /\ UNCHANGED <<err, count, instances>>
            [] ae_dict.geometry = "sheet" ->
                 IF SheetHasDip(ae_dict)
                 THEN \* dip_sets is called without a selection (lines 1126, 1161), and
                      \* planepoint fails on it: np.int is gone from newer numpy
                      \* (line 1418), older ones fail on select_idx[1] (line 1435)
                      /\ \E e \in {"AttributeError", "IndexError"} : Raise(e)
                      /\ UNCHANGED <<props_n, count, g, gen_done, instances>>
                 ELSE \E fs \in [1..SheetDraws(ae_dict, ae) -> Range(ae_dict.l_facies)] :
                      LET r == gen_sheet(ae_dict, ae, ae_arr, count, fs) IN
                      /\ props_n' = [mat |-> r.mat, fac |-> r.fac, azim |-> r.azim,
                                     dip |-> r.dip]
                      /\ count' = r.count
                      /\ instances' = instances \o SheetInstances(ae_dict, ae, ae_arr, count)
                      /\ gen_done' = Append(gen_done, ae.id)
                      /\ pc' = "update"
                      /\ err' = err
                      /\ UNCHANGED g
    /\ UNCHANGED <<ae_lu, ae_i, ae_arr, mg, sequences, elements, si, z_bot, seq_top_z,
                   seq_arr, znow, mat, fac, azim, dip, props, zhist>>

\* a mask that takes, for a sheet, every cell the generator has painted
ae_maskPainted(ae) ==
    IF elements[ae.ae].geometry = "sheet"
    THEN { v \in Voxels : props_n.mat[v] # 0 }
    ELSE { v \in Voxels : props_n.ae_arr_i[v] = ae.id }

\* lines 232, 237, 242: the cells the unit's simulated values are copied to
ae_mask(ae) ==
    IF elements[ae.ae].geometry = "sheet"
    THEN { v \in Voxels : ae_arr[v] = ae.id }
    ELSE { v \in Voxels : props_n.ae_arr_i[v] = ae.id }

\* lines 244-250: the simulated values are assigned to the storage arrays
FaciesUpdate ==
    /\ UNCHANGED side
    /\ pc = "update"
    /\ LET ae == ae_lu[ae_i + 1]
           m == ae_mask(ae)
           put(field, src) == [v \in Voxels |-> IF v \in m THEN src[v] ELSE field[v]]
       IN
       /\ ae_arr' = [v \in Voxels |-> IF v \in m THEN ae.id ELSE ae_arr[v]]
       /\ seq_arr' = [v \in Voxels |-> IF v \in m THEN ae.seq ELSE seq_arr[v]]
       /\ mat' = put(mat, props_n.mat)
       /\ fac' = put(fac, props_n.fac)
       /\ azim' = put(azim, props_n.azim)
       /\ dip' = put(dip, props_n.dip)
    /\ ae_i' = ae_i + 1
    /\ pc' = "gen"
    /\ UNCHANGED <<err, ae_lu, count, mg, sequences, elements, si, z_bot, seq_top_z, znow,
                   props_n, g, props, zhist, ghist>>

\* reindex, lines 1373-1377: the sorted distinct values are numbered from 1
reindex(inray) ==
    LET vals == { inray[v] : v \in Voxels }
    IN  [v \in Voxels |-> Cardinality({ w \in vals : w < inray[v] }) + 1]

\* lines 252-262: the properties are collected, then mat is renumbered, and
\* facies() returns the collection
FaciesReturn ==
    /\ UNCHANGED side
    /\ pc = "gen"
    /\ ae_i = Len(ae_lu)
    /\ props' = [azim |-> azim, mat |-> mat, dip |-> dip, fac |-> fac,
                 ae_arr |-> ae_arr, seq_arr |-> seq_arr]
    /\ mat' = reindex(mat)
    /\ pc' = "done"
    /\ UNCHANGED <<err, ae_lu, count, ae_i, ae_arr, mg, sequences, elements, si, z_bot,
                   seq_top_z, seq_arr, znow, fac, azim, dip, props_n, g, zhist, ghist>>

----------------------------------------------------------------------------
\* Specification

\* grid origins oz of the parameter sets: none, half a cell, one cell
Origins == {0, DZ \div 2, DZ}

\* arrays not yet bound to a value are shown as arrays of zeros
NoArray == [v \in Voxels |-> 0]

\* no study of a single function is running
NoRuns == <<>>
NoCall == [fn |-> "none"]

Init ==
    /\ runs = NoRuns
    /\ call = NoCall
    /\ pc = "seq"
    /\ err = ""
    /\ mg \in [oz : Origins]
    /\ \E p \in ParamSets :
          /\ sequences = p.sequences
          /\ elements = p.elements
    /\ si = 0
    /\ z_bot = Flat(0)
    /\ seq_top_z = <<>>
    /\ seq_arr = [v \in Voxels |-> 0]
    /\ ae_lu = <<>>
    /\ count = 0
    /\ znow = 0
    /\ ae_i = 0
    /\ ae_arr = [v \in Voxels |-> 0]
    /\ mat = NoArray
    /\ fac = NoArray
    /\ azim = NoArray
    /\ dip = NoArray
    /\ props_n = [mat |-> NoArray, fac |-> NoArray, azim |-> NoArray, dip |-> NoArray]
    /\ g = [levels |-> <<>>, k |-> 0]
    /\ props = <<>>
    /\ zb_created = <<>>
    /\ zb_log = <<>>
    /\ gen_log = <<>>
    /\ gen_done = <<>>
    /\ instances = <<>>

Next ==
    \/ SeqSingle
    \/ SeqContact
    \/ SeqContactEnd
    \/ AllocSeq
    \/ AllocUnit
    \/ AllocSeqEnd
    \/ AllocEnd
    \/ AeContact
    \/ AeContactEnd
    \/ GenBegin
    \/ TroughEllipsoid
    \/ ChannelPass
    \/ FaciesUpdate
    \/ FaciesReturn

Spec == Init /\ [][Next]_vars

----------------------------------------------------------------------------
\* Properties

\* the positions of facies() after the contact surfaces are assigned
AfterBuilder == pc \in {"gen", "trough", "channel", "update", "done"}

\* C1: the assignment of a unit's simulated values to the storage arrays changes
\* ae_arr, seq_arr, mat, fac, azim and dip only at cells whose AE id, before the
\* generator was called, is at most the unit's id; this includes the unit with id 0
C1_UpdateKeepsHigherUnits ==
    [][pc = "update" =>
         \A v \in Voxels :
            ae_arr[v] > ae_lu[ae_i + 1].id =>
               /\ ae_arr'[v] = ae_arr[v]
               /\ seq_arr'[v] = seq_arr[v]
               /\ mat'[v] = mat[v]
               /\ fac'[v] = fac[v]
               /\ azim'[v] = azim[v]
               /\ dip'[v] = dip[v]]_vars

\* C2: the material field facies() returns holds exactly the values 1..n, where n
\* is the number of distinct ids of the painted field
C2_ReturnedMatRenumbered ==
    pc = "done" =>
       LET ids == { props.mat[v] : v \in Voxels } IN ids = 1..Cardinality(ids)

\* the instances that cover at least one cell carry pairwise different material ids
UniqueInstanceIds ==
    \A i, j \in 1..Len(instances) :
       (i # j /\ instances[i].n > 0 /\ instances[j].n > 0)
          => instances[i].mat # instances[j].mat

\* C3: while the units are generated the material counter never decreases, and no
\* two geometric instances, of one unit or of different units, are painted with
\* the same material id
C3_CounterGivesUniqueIds ==
    [][/\ (AfterBuilder => count' >= count)
       /\ UniqueInstanceIds']_vars

\* the bottom of the interval of sequence i (1-based) in column c: the domain
\* bottom for the first sequence, the top contact of the sequence below otherwise
SeqBottom(i, c) == IF i = 1 THEN mg.oz ELSE seq_top_z[i - 1][c]

\* C4: with two or more sequences the intervals [bottom_i, top_i) of a column
\* hold every cell elevation of the domain exactly once
C4_SequencesPartitionColumn ==
    (sequences.n > 1 /\ Len(seq_top_z) = sequences.n) =>
       \A c \in Cols : \A k \in Levels :
          Cardinality({ i \in 1..sequences.n :
                           SeqBottom(i, c) <= zzz(k) /\ zzz(k) < seq_top_z[i][c] }) = 1

\* C5: once the generator of a unit has run, the z_bottom of its row is at least
\* the value written at creation if the unit is erosive (trough, channel), and at
\* most that value if it is a sheet
C5_ZBottomMonotone ==
    \A k \in 1..Len(gen_done) :
       LET r == gen_done[k] + 1 IN
       IF Erosive(ae_lu[r].ae)
       THEN ae_lu[r].z_bottom >= zb_created[r]
       ELSE ae_lu[r].z_bottom <= zb_created[r]

\* the number of writes of z_bottom logged for the unit with the given id
ZBottomWrites(log, id) == Cardinality({ k \in 1..Len(log) : log[k][1] = id })

C7_RowsAndGeneratorsInOrder ==
    /\ \A i \in 1..Len(ae_lu) : ae_lu[i].id = i - 1
    /\ \A i, j \in 1..Len(ae_lu) : i < j => ae_lu[i].seq <= ae_lu[j].seq
    /\ Len(gen_log) <= Len(ae_lu)
    /\ \A k \in 1..Len(gen_log) : gen_log[k] = k - 1
    /\ pc = "done" => Len(gen_log) = Len(ae_lu)

\* three units in more than one sequence, all generated
C7_Witness ==
    /\ pc = "done"
    /\ Len(ae_lu) = 3
    /\ ae_lu[1].seq < ae_lu[3].seq
    /\ gen_log = <<0, 1, 2>>

\* C8: every pass of the allocation loop moves the running depth upwards, so
\* that the loop reaches the top of the sequence or of the domain
C8_AllocationAdvances ==
    [][(pc = "alloc_unit" /\ Len(ae_lu') > Len(ae_lu)) => znow' > znow]_vars

\* C9: after the contact surfaces are assigned, the z_top of every row is at most
\* the domain top oz + lz and at least the z_bottom the row was created with
C9_ZTopWithinDomain ==
    AfterBuilder =>
       \A i \in 1..Len(ae_lu) :
          /\ ae_lu[i].z_top <= mg.oz + lz
          /\ ae_lu[i].z_top >= zb_created[i]

\* C10: a sequence whose element catalog is empty is given exactly one unit that
\* spans it, and facies() does not raise
C10_EmptyCatalogUniform ==
    (\E s \in 1..sequences.n : sequences.ll_seq_ae[s] = <<>>) =>
       /\ pc # "error"
       /\ AfterBuilder => Len(ae_lu) = sequences.n

\* C11: the assignment of a sheet's simulated values changes ae_arr, seq_arr, mat,
\* fac, azim and dip only at the cells that carry the sheet's own AE id, whether
\* the sheet is massive or built of lenses
C11_SheetKeepsOtherUnits ==
    [][(pc = "update" /\ elements[ae_lu[ae_i + 1].ae].geometry = "sheet") =>
         \A v \in Voxels :
            ae_arr[v] # ae_lu[ae_i + 1].id =>
               /\ ae_arr'[v] = ae_arr[v]
               /\ seq_arr'[v] = seq_arr[v]
               /\ mat'[v] = mat[v]
               /\ fac'[v] = fac[v]
               /\ azim'[v] = azim[v]
               /\ dip'[v] = dip[v]]_vars

\* a sheet built of lenses has been assigned although its lenses reach over cells
\* of another unit, whose material the assignment left alone
C11_Witness ==
    /\ pc = "gen"
    /\ ae_i > 0
    /\ elements[ae_lu[ae_i].ae].geometry = "sheet"
    /\ elements[ae_lu[ae_i].ae].lens_thickness # -1
    /\ \E v \in Voxels : /\ ae_arr[v] # ae_lu[ae_i].id
                         /\ props_n.mat[v] # 0
                         /\ mat[v] # props_n.mat[v]

\* a step of gen_trough or gen_channel whose object selects no cell: the ellipsoid or
\* channel just recorded holds no cell, or no channel was recorded at all (empty depth
\* range, or no centreline point left in the domain)
ZeroVoxelObject ==
    /\ pc \in {"trough", "channel"}
    /\ \/ instances' = instances
       \/ /\ Len(instances') = Len(instances) + 1
          /\ instances'[Len(instances')].n = 0

GeneratorFieldsKept ==
    /\ props_n'.mat = props_n.mat /\ props_n'.fac = props_n.fac
    /\ props_n'.azim = props_n.azim /\ props_n'.dip = props_n.dip

\* C14: an object that selects no cell is skipped without an exception and leaves the
\* material, facies, azimuth and dip fields as they were
C14_EmptyObjectSkipped ==
    [][ZeroVoxelObject => (err' = "" /\ GeneratorFieldsKept)]_vars

\* what does hold: an object that selects no cell never changes the four fields
EmptyObjectKeepsFields ==
    [][ZeroVoxelObject => GeneratorFieldsKept]_vars

\* what does hold: an ellipsoid that selects no cell passes without an exception
EmptyTroughSkipped ==
    [][(ZeroVoxelObject /\ pc = "trough") => (err' = "" /\ GeneratorFieldsKept)]_vars

\* every sequence holds exactly one unit of the lookup table
OneUnitPerSequence ==
    /\ Len(ae_lu) = sequences.n
    /\ \A i \in 1..Len(ae_lu) : ae_lu[i].seq = i - 1

\* the sequence-id field has value i exactly between the contacts of sequence i
SeqArrFollowsContacts ==
    \A v \in Voxels : \A i \in 1..sequences.n :
       seq_arr[v] = i - 1 <=>
          (SeqBottom(i, v[1]) <= zzz(v[2]) /\ zzz(v[2]) < seq_top_z[i][v[1]])

\* C16: with several sequences, flat contacts and one unit per sequence, the
\* sequence-id field returned has value i exactly at the cells between the top
\* contact of sequence i - 1 and that of sequence i, whatever the units' geometry
C16_SeqArrFollowsFlatContacts ==
    (pc = "done" /\ sequences.n > 1 /\ sequences.seq_contact = "flat" /\ OneUnitPerSequence)
        => SeqArrFollowsContacts

\* what does hold: the same when every unit is a sheet and the grid origin is 0
SeqArrFollowsFlatContactsOfSheets ==
    (/\ pc = "done" /\ sequences.n > 1 /\ sequences.seq_contact = "flat"
     /\ OneUnitPerSequence /\ mg.oz = 0
     /\ \A i \in 1..Len(ae_lu) : elements[ae_lu[i].ae].geometry = "sheet")
        => SeqArrFollowsContacts

\* one sequence, the sheet as the only element type, no dip, one facies
SheetOnlyModel ==
    /\ sequences.n = 1
    /\ sequences.ll_seq_ae = << <<"sheet">> >>
    /\ ~SheetHasDip(elements.sheet)
    /\ Len(elements.sheet.l_facies) = 1

MatIds == { props.mat[v] : v \in Voxels }
FacIds == { props.fac[v] : v \in Voxels }

\* C17 as stated: such a model yields a material field with exactly one id and a
\* constant facies field
C17_OneMaterialId ==
    (pc = "done" /\ SheetOnlyModel) => (Cardinality(MatIds) = 1 /\ Cardinality(FacIds) = 1)

\* what does hold: with massive sheets the facies field is constant and the
\* material field holds ids of the units generated, a single id if there is one unit
MassiveSheetsOneIdPerUnit ==
    (pc = "done" /\ SheetOnlyModel /\ elements.sheet.lens_thickness = -1) =>
       /\ Cardinality(FacIds) = 1
       /\ MatIds \subseteq { instances[i].mat : i \in 1..Len(instances) }
       /\ Len(ae_lu) = 1 => Cardinality(MatIds) = 1

------------------------------------------------------------\* the cells a step of a channel pass writes: mat, fac and ae_arr_i are written through
\* the one mask chan_mask (lines 946-948)
ChannelPainted ==
    { v \in Voxels : \/ props_n'.mat[v] # props_n.mat[v]
                     \/ props_n'.fac[v] # props_n.fac[v]
                     \/ props_n'.ae_arr_i[v] # props_n.ae_arr_i[v] }

\* C26: a channel pass with top elevation znow gives its material id to no cell above
\* the level idx_z(znow), and to no cell deeper than the channel depth below it
C26_ChannelPaintsBelowTop ==
    [][ (pc = "channel" /\ count' = count + 1)
          => LET zc == g.levels[g.k + 1]
                 depth == elements[ae_lu[ae_i + 1].ae].depth
             IN  \A v \in ChannelPainted :
                    /\ v[2] <= idx_z(zc)
                    /\ (idx_z(zc) - v[2]) * DZ <= depth ]_vars

\* what does hold: the cells painted lie within the channel depth of the level of the
\* top, below it or above it
ChannelPaintsAroundTop ==
    [][ (pc = "channel" /\ count' = count + 1)
          => LET zc == g.levels[g.k + 1]
                 depth == elements[ae_lu[ae_i + 1].ae].depth
             IN  \A v \in ChannelPainted :
                    Abs(idx_z(zc) - v[2]) * DZ <= depth ]_vars

\* the cells whose sequence id is the sequence of the unit named by their AE id
SeqOfUnit(v) == \E i \in 1..Len(ae_lu) : ae_lu[i].id = ae_arr[v] /\ ae_lu[i].seq = seq_arr[v]

\* C28: once the contact surfaces of the units are assigned, and after the values of
\* every generator call are stored, the sequence id of every cell is the sequence of
\* the unit whose id the cell holds in the AE-id field
C28_SeqArrMatchesAeArr ==
    pc \in {"gen", "done"} => \A v \in Voxels : SeqOfUnit(v)

\* what does hold: the same for the cells that hold the id of a unit other than the
\* first; the id 0 of the first unit is also the value of the cells no unit reaches
SeqArrMatchesUnitsAssigned ==
    pc \in {"gen", "done"} => \A v \in Voxels : ae_arr[v] # 0 => SeqOfUnit(v)

----------------
\* The random generators of the core (sim.py imports both numpy and random)

\* facies() at rest: the state of facies() while a single function is studied
FaciesIdle ==
    /\ pc = "idle"
    /\ err = ""
    /\ mg = [oz |-> 0]
    /\ sequences = Sequences(1, "flat", << <<"sheet">> >>, <<0>>)
    /\ elements = Elements("flat")
    /\ si = 0
    /\ z_bot = Flat(0)
    /\ seq_top_z = <<>>
    /\ seq_arr = NoArray
    /\ ae_lu = <<>>
    /\ count = 0
    /\ znow = 0
    /\ ae_i = 0
    /\ ae_arr = NoArray
    /\ mat = NoArray
    /\ fac = NoArray
    /\ azim = NoArray
    /\ dip = NoArray
    /\ props_n = [mat |-> NoArray, fac |-> NoArray, azim |-> NoArray, dip |-> NoArray]
    /\ g = [levels |-> <<>>, k |-> 0]
    /\ props = <<>>
    /\ zb_created = <<>>
    /\ zb_log = <<>>
    /\ gen_log = <<>>
    /\ gen_done = <<>>
    /\ instances = <<>>

\* the two process-wide generators: numpy's global RandomState behind np.random.*
\* and the hidden instance of Python's random module behind random.choice
Generators == {"np", "py"}

\* a generator state is one of MaxSeed + 1 values; a seed sets the state
MaxSeed == 3
Seeds == 0..MaxSeed

\* a draw returns a value fixed by the generator state and advances the state
StreamValue(s) == s
StreamNext(s) == (s + 1) % (MaxSeed + 1)

\* the draws of one pass of the core in program order, each with the generator
\* that the code calls for it
DrawProgram ==
    << [what |-> "element",     gen |-> "py"],    \* 143  prob_choose -> random.choice (1363)
       [what |-> "thickness",   gen |-> "np"],    \* 147  np.random.normal
       [what |-> "avulsion",    gen |-> "py"],    \* 152  prob_choose -> random.choice (1363)
       [what |-> "avulsion_dz", gen |-> "np"],    \* 154  np.random.uniform
       [what |-> "placement",   gen |-> "np"],    \* 580-584  np.random.uniform
       [what |-> "facies",      gen |-> "py"],    \* 619, 688, 930, 1136  random.choice
       [what |-> "disturbance", gen |-> "np"] >>  \* 1073  np.random.normal

\* two runs with identical inputs; one generator is seeded with the same seed in
\* both, the other one starts in each run from whatever the interpreter gave it
InitStreams ==
    /\ FaciesIdle
    /\ call = NoCall
    /\ \E seeded \in Generators, seed \in Seeds :
          runs \in { r \in [1..2 -> [seeded : {seeded}, np : Seeds, py : Seeds,
                                     pos : {0}, out : {<<>>}]] :
                        \A i \in 1..2 : r[i][seeded] = seed }

\* run i makes its next draw
DrawStep(i) ==
    /\ runs[i].pos < Len(DrawProgram)
    /\ LET d == DrawProgram[runs[i].pos + 1]
           s == runs[i][d.gen]
       IN runs' = [runs EXCEPT ![i] =
                      [@ EXCEPT ![d.gen] = StreamNext(s),
                                !.pos = @ + 1,
                                !.out = Append(@, StreamValue(s))]]
    /\ UNCHANGED <<facies_vars, call>>

FirstRunDraws == DrawStep(1)
SecondRunDraws == DrawStep(2)

NextStreams == FirstRunDraws \/ SecondRunDraws

SpecStreams == InitStreams /\ [][NextStreams]_vars

\* both runs have made every draw
RunsComplete == \A i \in 1..2 : runs[i].pos = Len(DrawProgram)

\* C12: two runs with identical inputs in which the one generator was seeded with
\* the same seed draw the same values, hence produce the same output fields
C12_SeededRunsAgree ==
    RunsComplete => runs[1].out = runs[2].out

\* what does hold: runs agree when both generators start from the same state
BothSeededRunsAgree ==
    (RunsComplete /\ runs[1].np = runs[2].np /\ runs[1].py = runs[2].py)
        => runs[1].out = runs[2].out

----------------------------------------------------------------------------
\* prob_choose called on its own (lines 1359-1365)

\* candidate lists of up to MaxList entries; probability lists up to one entry longer,
\* in thousandths as int(probs[chi] * 1000) yields them
MaxList == 2
SeqsUpTo(S, n) == UNION { [1..k -> S] : k \in 0..n }

InitChoose ==
    /\ FaciesIdle
    /\ runs = NoRuns
    /\ \E ch \in SeqsUpTo({1, 2}, MaxList) \ {<<>>},
          pr \in SeqsUpTo({0, 500, 1000}, MaxList + 1) :
          call = [fn |-> "prob_choose", choices |-> ch, probs |-> pr, raised |-> "", ret |-> 0, done |-> FALSE]

\* line 1362 reads probs[chi] for every chi < len(choices); line 1363 draws from ae_list
ProbChooseRaises ==
    /\ call.fn = "prob_choose" /\ ~call.done
    /\ prob_choose_raises(call.choices, call.probs)
    /\ call' = [call EXCEPT !.raised = "IndexError", !.done = TRUE]
    /\ UNCHANGED <<facies_vars, runs>>

ProbChooseReturns ==
    /\ call.fn = "prob_choose" /\ ~call.done
    /\ ~prob_choose_raises(call.choices, call.probs)
    /\ \E c \in prob_choose(call.choices, call.probs) : call' = [call EXCEPT !.ret = c, !.done = TRUE]
    /\ UNCHANGED <<facies_vars, runs>>

NextChoose == ProbChooseRaises \/ ProbChooseReturns

SpecChoose == InitChoose /\ [][NextChoose]_vars

\* C13: a weighted choice whose probability list is shorter or longer than the
\* candidate list ends in an error and returns no choice
C13_LengthMismatchIsFatal ==
    (call.done /\ Len(call.probs) # Len(call.choices)) => call.raised # ""

\* what does hold: a probability list shorter than the candidate list is fatal
ShorterProbsIsFatal ==
    (call.done /\ Len(call.probs) < Len(call.choices)) => call.raised = "IndexError"

----------------------------------------------------------------------------
\* heterogeneity(): nesting of a cropped random field (lines 290-330)

\* the number of indices of the slice i1:i2 of an axis of n cells: a negative bound
\* counts from the end, a bound beyond the end is cut off
SliceBound(i, n) == IF i < 0 THEN Max2(i + n, 0) ELSE Min2(i, n)
SliceLen(i1, i2, n) == Max2(SliceBound(i2, n) - SliceBound(i1, n), 0)

\* hu.specsim(temp_gr, ...): a field over the bounding box; along an axis it has the
\* number of cells of the box or one more
FieldSizes(n) == {n, n + 1}

\* lines 293-296: the bounding boxes of a group of cells along an axis of n cells,
\* [lo, n] with lo the smallest index and n the number of cells
Boxes(n) == { b \in [lo : 0..(n - 1), n : 1..n] : b.lo + b.n <= n }

InitNest ==
    /\ FaciesIdle
    /\ runs = NoRuns
    /\ \E bx \in Boxes(NX), bz \in Boxes(NZ) :
       \E sx \in FieldSizes(bx.n), sz \in FieldSizes(bz.n) :
          call = [fn |-> "nest", ix1 |-> bx.lo, fac_nx |-> bx.n, iz1 |-> bz.lo,
                  fac_nz |-> bz.n, sx |-> sx, sz |-> sz,
                  raised |-> "", ret |-> 0, done |-> FALSE]

\* line 316: the target slice has the shape of the field it is to receive
NestFits(iz1) ==
    /\ SliceLen(call.ix1, call.ix1 + call.sx, NX) = call.sx
    /\ SliceLen(iz1, iz1 + call.sz, NZ) = call.sz

\* lines 313-319: the lower z index used for the insertion
NestZ == IF NestFits(call.iz1) THEN call.iz1 ELSE call.iz1 - 1

\* line 322: the field is written into the slice
NestInserts ==
    /\ call.fn = "nest" /\ ~call.done
    /\ NestFits(NestZ)
    /\ call' = [call EXCEPT !.ret = NestZ, !.done = TRUE]
    /\ UNCHANGED <<facies_vars, runs>>

\* line 322: the shapes differ, the assignment raises ValueError
NestRaises ==
    /\ call.fn = "nest" /\ ~call.done
    /\ ~NestFits(NestZ)
    /\ call' = [call EXCEPT !.raised = "ValueError", !.done = TRUE]
    /\ UNCHANGED <<facies_vars, runs>>

NextNest == NestInserts \/ NestRaises

SpecNest == InitNest /\ [][NextNest]_vars

\* C15: for every bounding box and every shape of the random field, the target slice
\* has the field's shape at once or after the shift by one index in z, so the
\* insertion never raises
C15_NestingNeverRaises ==
    (call.fn = "nest" /\ call.done) => call.raised = ""

\* what does hold: a field of the size of the box is inserted in place, and a field
\* one cell taller than a box that does not touch the bottom is inserted one lower
NestingOfFittingField ==
    (call.fn = "nest" /\ call.done /\ call.sx = call.fac_nx) =>
        /\ call.sz = call.fac_nz => (call.raised = "" /\ call.ret = call.iz1)
        /\ (call.sz = call.fac_nz + 1 /\ call.iz1 > 0 /\ call.iz1 + call.fac_nz = NZ)
              => (call.raised = "" /\ call.ret = call.iz1 - 1)

----------------------------------------------------------------------------
\* scale_rotate called on its own (lines 704-737)

\* horizontal offsets are multiples of 5 up to 5 * MaxCoord, so that a point turned by
\* an angle of Angles has whole coordinates; semi-axes a and b are 5..5 * MaxAxis
MaxCoord == 2
MaxAxis == 2
Offsets == { 5 * i : i \in (-MaxCoord)..MaxCoord }
SemiAxes == { 5 * i : i \in 1..MaxAxis }

\* the point (x, y) turned by phi about the vertical axis
Turned(x, y, phi) ==
    [x |-> (x * Cos(phi) - y * Sin(phi)) \div 5, y |-> (x * Sin(phi) + y * Cos(phi)) \div 5]

\* the point offsets, semi-axes and angles of a call, and the turn phi; alpha + phi is
\* an angle of Angles
InitRotate ==
    /\ FaciesIdle
    /\ runs = NoRuns
    /\ \E x \in Offsets, y \in Offsets, z \in {-2, -1, 0, 1}, a \in SemiAxes, b \in SemiAxes,
          alpha \in Angles, phi \in Angles :
          /\ (alpha + phi) % 360 \in Angles
          /\ call = [fn |-> "scale_rotate", x |-> x, y |-> y, z |-> z, a |-> a, b |-> b,
                     c |-> 2, alpha |-> alpha, phi |-> phi,
                     raised |-> "", ret |-> <<FALSE, FALSE>>, done |-> FALSE]

\* the test of the point with alpha, and of the turned point with alpha + phi
ScaleRotateCalls ==
    /\ call.fn = "scale_rotate" /\ ~call.done
    /\ LET p == Turned(call.x, call.y, call.phi) IN
       call' = [call EXCEPT
                  !.ret = << scale_rotate(call.x, call.y, call.z, call.alpha,
                                          call.a, call.b, call.c),
                             scale_rotate(p.x, p.y, call.z, (call.alpha + call.phi) % 360,
                                          call.a, call.b, call.c) >>,
                  !.done = TRUE]
    /\ UNCHANGED <<facies_vars, runs>>

NextRotate == ScaleRotateCalls

SpecRotate == InitRotate /\ [][NextRotate]_vars

\* R2 <= 1 for the point of the call, from the rotated coordinates
\* u = x cos(alpha) + y sin(alpha) and v = x sin(alpha) - y cos(alpha):
\* (u / a)^2 + (v / b)^2 + (z / c)^2 <= 1
InEllipsoid ==
    LET u == call.x * Cos(call.alpha) + call.y * Sin(call.alpha)
        v == call.x * Sin(call.alpha) - call.y * Cos(call.alpha)
        a2 == call.a * call.a
        b2 == call.b * call.b
        c2 == call.c * call.c
    IN  u * u * b2 * c2 + v * v * a2 * c2 + 25 * call.z * call.z * a2 * b2 <= 25 * a2 * b2 * c2

\* C18: scale_rotate selects a point iff R2 <= 1 and z <= 0, and the point turned by
\* phi tested with alpha + phi is selected iff the point tested with alpha is
\* (in exact arithmetic, for the angles of Angles)
C18_RotationSymmetry ==
    (call.fn = "scale_rotate" /\ call.done) =>
       /\ call.ret[1] <=> (InEllipsoid /\ call.z <= 0)
       /\ call.ret[2] <=> call.ret[1]

C18_Witness ==
    /\ call.fn = "scale_rotate" /\ call.done
    /\ call.ret[1]
    /\ call.x # 0 /\ call.y # 0 /\ call.z < 0
    /\ call.a # call.b
    /\ call.alpha = 37 /\ call.phi = 143

----------------------------------------------------------------------------
\* heterogeneity() (lines 265-455), up to the conductivity tensors

\* hydraulics: conductivity, porosity and anisotropy ratio of the facies 0 and 1
\* (r_k_h, r_n, r_k_ratio), each facies with values of its own
Hydraulics == [r_k_h |-> <<10, 20>>, r_n |-> <<3, 4>>, r_k_ratio |-> <<1, 2>>]

\* facies fields of facies(): a facies per level
FaciesFields == { [v \in Voxels |-> f[v[2]]] : f \in [Levels -> {0, 1}] }

\* hu.specsim for a facies: per cell a value around the facies' scalar
SpecsimValues(scalar) == {scalar, 2 * scalar}

\* lines 277-282: the arguments and the storage arrays; the local name aei is not
\* bound to a value yet
InitHet ==
    /\ FaciesIdle
    /\ runs = NoRuns
    /\ \E fh \in BOOLEAN, hl \in {"facies", "internal"}, ff \in FaciesFields :
          /\ ~fh => hl = "facies"
          /\ call = [fn |-> "heterogeneity", at |-> "start", flag_het |-> fh, hetlev |-> hl,
                     fac |-> ff,
                     k_iso |-> [v \in Voxels |-> 0], poros |-> [v \in Voxels |-> 0],
                     anirat |-> [v \in Voxels |-> 1],
                     aei |-> "unbound", raised |-> "", done |-> FALSE]

\* lines 284-338 with hetlev 'facies': every (material, facies) group is given the
\* scalars of its facies
HetFaciesLevel ==
    /\ call.fn = "heterogeneity" /\ call.at = "start"
    /\ call.flag_het /\ call.hetlev = "facies"
    /\ call' = [call EXCEPT
                  !.k_iso = [v \in Voxels |-> Hydraulics.r_k_h[call.fac[v] + 1]],
                  !.poros = [v \in Voxels |-> Hydraulics.r_n[call.fac[v] + 1]],
                  !.anirat = [v \in Voxels |-> Hydraulics.r_k_ratio[call.fac[v] + 1]],
                  !.at = "trend"]
    /\ UNCHANGED <<facies_vars, runs>>

\* lines 284-361 with hetlev 'internal': every group is given a random field, and the
\* loop over ae_lu of line 342 binds aei (ae_lu holds a unit, no cell has material 0)
HetInternal ==
    /\ call.fn = "heterogeneity" /\ call.at = "start"
    /\ call.flag_het /\ call.hetlev = "internal"
    /\ \E k \in [Voxels -> SpecsimValues(1)], n \in [Levels -> SpecsimValues(1)] :
          call' = [call EXCEPT
                     !.k_iso = [v \in Voxels |-> k[v] * Hydraulics.r_k_h[call.fac[v] + 1]],
                     !.poros = [v \in Voxels |-> n[v[2]] + Hydraulics.r_n[call.fac[v] + 1]],
                     !.anirat = [v \in Voxels |-> Hydraulics.r_k_ratio[call.fac[v] + 1]],
                     !.aei = "bound",
                     !.at = "trend"]
    /\ UNCHANGED <<facies_vars, runs>>

\* line 365 reads elements[aei[3]]: UnboundLocalError if the loop of line 342 has not
\* run; no trend is configured
HetTrend ==
    /\ call.fn = "heterogeneity" /\ call.at = "trend"
    /\ IF call.aei = "unbound"
       THEN call' = [call EXCEPT !.raised = "UnboundLocalError", !.done = TRUE, !.at = "raised"]
       ELSE call' = [call EXCEPT !.at = "tensor"]
    /\ UNCHANGED <<facies_vars, runs>>

\* lines 400-406: the homogeneous case
HetHomogeneous ==
    /\ call.fn = "heterogeneity" /\ call.at = "start"
    /\ ~call.flag_het
    /\ call' = [call EXCEPT
                  !.k_iso = [v \in Voxels |-> Hydraulics.r_k_h[call.fac[v] + 1]],
                  !.poros = [v \in Voxels |-> Hydraulics.r_n[call.fac[v] + 1]],
                  !.anirat = [v \in Voxels |-> Hydraulics.r_k_ratio[call.fac[v] + 1]],
                  !.at = "tensor"]
    /\ UNCHANGED <<facies_vars, runs>>

\* lines 408-455: the tensors are assembled and the fields returned
HetReturn ==
    /\ call.fn = "heterogeneity" /\ call.at = "tensor"
    /\ call' = [call EXCEPT !.done = TRUE, !.at = "returned"]
    /\ UNCHANGED <<facies_vars, runs>>

NextHet == HetFaciesLevel \/ HetInternal \/ HetTrend \/ HetHomogeneous \/ HetReturn

SpecHet == InitHet /\ [][NextHet]_vars

\* every cell holds the scalars configured for its facies
FaciesScalars ==
    \A v \in Voxels : /\ call.k_iso[v] = Hydraulics.r_k_h[call.fac[v] + 1]
                      /\ call.poros[v] = Hydraulics.r_n[call.fac[v] + 1]
                      /\ call.anirat[v] = Hydraulics.r_k_ratio[call.fac[v] + 1]

\* C20: with flag_het and hetlev 'facies', and no trend configured, heterogeneity()
\* returns, and every cell of the fields returned holds the scalars of its facies
C20_FaciesLevelReturns ==
    (call.fn = "heterogeneity" /\ call.flag_het /\ call.hetlev = "facies" /\ call.done)
        => (call.raised = "" /\ FaciesScalars)

\* what does hold: the groups are given the scalars of their facies before the
\* exception, and the homogeneous case returns them
FaciesScalarsAssigned ==
    (/\ call.fn = "heterogeneity" /\ call.at # "start"
     /\ call.hetlev = "facies")
        => /\ FaciesScalars
           /\ (~call.flag_het /\ call.done) => call.raised = ""

----------------------------------------------------------------------------
\* heterogeneity(), the conductivity trends of the element types (lines 364-398)

\* the element types of the parameter file, in the order 'for ei in elements' visits them
ElementTypes == <<"sheet", "trough">>

\* a type has the key r_k_ztrend or not, and the key r_k_xtrend or not
TrendKeys == [r_k_ztrend : BOOLEAN, r_k_xtrend : BOOLEAN]

\* np.linspace(a, b, n)[k]; the trends run from 1 to the number of cells, so that the
\* factors are whole numbers
Linspace(a, b, n, k) == a + (k * (b - a)) \div (n - 1)

\* lines 383-394: factor_arr of the element type ty at cell v (r_k_ztrend = [1, nz],
\* r_k_xtrend = [1, nx])
factor_arr(trends, ty, v) ==
    (IF trends[ty].r_k_ztrend THEN Linspace(1, NZ, NZ, v[2]) ELSE 1)
        * (IF trends[ty].r_k_xtrend THEN Linspace(1, NX, NX, v[1] - 1) ELSE 1)

\* ae_lu lists the type of each unit (aei[3]); the unit at a cell: one unit per level,
\* the last unit up to the top (ae_arr)
UnitLists == UNION { [1..n -> Range(ElementTypes)] : n \in 1..MaxUnits }
UnitAt(ae, v) == Min2(v[2] + 1, Len(ae))

\* the conductivity the trends multiply
KBefore == Hydraulics.r_k_h[1]

\* hetlev 'internal' and k_trend not 'global': the loop of line 342 has left aei at the
\* last row of ae_lu
InitTrend ==
    /\ FaciesIdle
    /\ runs = NoRuns
    /\ \E ae \in UnitLists, tr \in [Range(ElementTypes) -> TrendKeys] :
          call = [fn |-> "trend", at |-> "test", ae_lu |-> ae, elements |-> tr,
                  k_iso |-> [v \in Voxels |-> KBefore],
                  aei |-> Len(ae), ei |-> 1, raised |-> "", done |-> FALSE]

\* the element type named by aei[3]
AeiType == call.ae_lu[call.aei]

\* line 365: the trend code runs if the type of aei has a trend key
TrendTest ==
    /\ call.fn = "trend" /\ call.at = "test"
    /\ IF call.elements[AeiType].r_k_ztrend \/ call.elements[AeiType].r_k_xtrend
       THEN call' = [call EXCEPT !.at = "elements"]
       ELSE call' = [call EXCEPT !.at = "returned", !.done = TRUE]
    /\ UNCHANGED <<facies_vars, runs>>

\* lines 382-398, one pass of 'for ei in elements': the factor is read from
\* elements[aei[3]] (lines 383-392), the units of type ei are multiplied by it (396-398),
\* and the inner loop leaves aei at the last row again
TrendElement ==
    /\ call.fn = "trend" /\ call.at = "elements"
    /\ LET ei == ElementTypes[call.ei]
           last == call.ei = Len(ElementTypes)
       IN  call' = [call EXCEPT
                      !.k_iso = [v \in Voxels |->
                                    IF call.ae_lu[UnitAt(call.ae_lu, v)] = ei
                                    THEN call.k_iso[v] * factor_arr(call.elements, AeiType, v)
                                    ELSE call.k_iso[v]],
                      !.aei = Len(call.ae_lu),
                      !.ei = IF last THEN call.ei ELSE call.ei + 1,
                      !.at = IF last THEN "returned" ELSE "elements",
                      !.done = last]
    /\ UNCHANGED <<facies_vars, runs>>

NextTrend == TrendTest \/ TrendElement

SpecTrend == InitTrend /\ [][NextTrend]_vars

\* C21: after the trend code, the conductivity of every cell is the one before times
\* the trend factors configured for the element type of the unit at the cell (1 for a
\* type without a trend), whatever the type of the last unit of ae_lu
C21_TrendOfOwnType ==
    (call.fn = "trend" /\ call.done)
        => \A v \in Voxels :
              call.k_iso[v] = KBefore * factor_arr(call.elements,
                                                   call.ae_lu[UnitAt(call.ae_lu, v)], v)

\* what does hold: every cell is multiplied by the factors of the type of the last unit
TrendOfLastUnit ==
    (call.fn = "trend" /\ call.done)
        => \A v \in Voxels :
              call.k_iso[v] = KBefore * factor_arr(call.elements,
                                                   call.ae_lu[Len(call.ae_lu)], v)

----------------------------------------------------------------------------
\* dip_sets (lines 1190-1263) and planepoint (lines 1399-1446)

\* aep['dipset_d'], the distance between two planes
dipset_d == 2 * DX

\* tan(90 - dip_z) of line 1237 for the dip of 45 degrees drawn in line 1235
TanOfDip == 1

\* aep['l_facies'], and the settings of aep['ll_altfacies']: none, every facies
\* followed by the other one, every facies followed by itself
l_facies == <<0, 1>>
AltTables == { <<>>, << <<1>>, <<0>> >>, << <<0>>, <<1>> >> }

\* the three callers: gen_trough passes a selection and its angle (line 677), gen_sheet
\* passes neither (lines 1126, 1161), gen_channel passes the centreline (line 927)
DipCallers == {"gen_trough", "gen_sheet", "gen_channel"}

InitDip ==
    /\ FaciesIdle
    /\ runs = NoRuns
    /\ \E cl \in DipCallers, sel \in SUBSET Voxels, zn \in { k * DZ : k \in Levels },
          az \in {0, 180}, u \in 1..(dipset_d - 1), alt \in AltTables :
          /\ cl # "gen_trough" => (sel = {} /\ az = 0)
          /\ call = [fn |-> "dip_sets", at |-> "planes", caller |-> cl,
                     select |-> sel, znow |-> zn, azimuth_z |-> az, u |-> u,
                     ll_altfacies |-> alt,
                     xpvec |-> <<>>, xpvec_bound |-> FALSE, x_dip |-> <<>>,
                     planepoint |-> [v \in Voxels |-> 0],
                     set_no |-> [v \in Voxels |-> 0], fac_set |-> [v \in Voxels |-> 0],
                     raised |-> "", done |-> FALSE]

\* lines 1213-1229: with a centreline, x_dip and y_dip come from curve_interp and the
\* names xpvec and ypvec stay unbound; without one, the planes are set along the
\* azimuth from xst to xend (the row of the grid has y = 0, and ypvec = 0)
DipPlanes ==
    /\ call.fn = "dip_sets" /\ call.at = "planes"
    /\ IF call.caller = "gen_channel"
       THEN call' = [call EXCEPT !.at = "normal",
                                 !.x_dip = [c \in Cols |-> xxx(c)]]
       ELSE LET xst == (0 - dipset_d) * 20 + call.u
                xend == (3 * lx) \div 2 - xst
                lamb_dip == Arange(xst, xend, dipset_d)
                xp == [i \in 1..Len(lamb_dip) |-> (lamb_dip[i] * Cos(call.azimuth_z)) \div 5]
            IN  call' = [call EXCEPT !.at = "normal",
                                     !.xpvec = xp, !.xpvec_bound = TRUE,
                                     !.x_dip = [i \in 1..Len(xp) |-> xst + xp[i]]]
    /\ UNCHANGED <<facies_vars, runs>>

\* lines 1232-1237: p_setlamb reads xpvec and ypvec
DipNormal ==
    /\ call.fn = "dip_sets" /\ call.at = "normal"
    /\ IF call.xpvec_bound
       THEN call' = [call EXCEPT !.at = "planepoint"]
       ELSE call' = [call EXCEPT !.at = "raised", !.raised = "UnboundLocalError",
                                 !.done = TRUE]
    /\ UNCHANGED <<facies_vars, runs>>

\* lines 1421-1430 and 1442: the sign of the distance of cell v to plane i is the sign
\* of dip_norm[:, i] . (plp[i] - points[v]), with dip_norm of line 1237
PlaneSide(xp, x_dip, zn, i, v) ==
    xp[i] * (x_dip[i] - xxx(v[1])) + Abs(xp[i]) * TanOfDip * (zn - zzz(v[2]))

\* lines 1428-1444, for iset = i - 1: the cells the pass of plane i writes i to; the
\* first pass tests its own plane only, the branch iset == n_sets is never taken
InSet(xp, x_dip, zn, i, v) ==
    IF i = 1
    THEN PlaneSide(xp, x_dip, zn, 1, v) <= 0
    ELSE /\ PlaneSide(xp, x_dip, zn, i, v) <= 0
         /\ PlaneSide(xp, x_dip, zn, i + 1, v) > 0

\* planepoint: set_no starts at 0, the passes iset = 0 .. n_sets - 2 write in turn, so
\* a selected cell keeps the number of the last pass that wrote it
planepoint(xp, x_dip, zn, select) ==
    [v \in Voxels |->
        LET hits == { i \in 1..(Len(xp) - 1) : InSet(xp, x_dip, zn, i, v) }
        IN  IF v \in select /\ hits # {}
            THEN CHOOSE i \in hits : \A j \in hits : j <= i
            ELSE 0]

\* lines 1239-1241: planepoint, then set_no = reindex(set_no) + 1. np.int (line 1418)
\* is gone from newer numpy; with the default select=[] np.where gives one index array
\* and select_idx[1] of line 1435 is out of range
DipPlanepoint ==
    /\ call.fn = "dip_sets" /\ call.at = "planepoint"
    /\ \/ call' = [call EXCEPT !.at = "raised", !.raised = "AttributeError", !.done = TRUE]
       \/ IF call.caller = "gen_trough"
          THEN LET raw == planepoint(call.xpvec, call.x_dip, call.znow, call.select)
                   re == reindex(raw)
               IN  call' = [call EXCEPT !.at = "facies", !.planepoint = raw,
                                        !.set_no = [v \in Voxels |-> re[v] + 1]]
          ELSE call' = [call EXCEPT !.at = "raised", !.raised = "IndexError", !.done = TRUE]
    /\ UNCHANGED <<facies_vars, runs>>

\* np.unique(set_no)
SetNumbers == { call.set_no[v] : v \in Voxels }

\* lines 1250-1254: a facies per set, each drawn from the row of the table that belongs
\* to the facies drawn before (the first one follows a facies drawn from l_facies)
AltDraws ==
    { f \in [SetNumbers -> Range(l_facies)] :
        \A n \in SetNumbers :
           \E prev \in 1..Len(l_facies) :
              /\ f[n] \in Range(call.ll_altfacies[prev])
              /\ \A m \in SetNumbers :
                    (m < n /\ \A o \in SetNumbers : ~(m < o /\ o < n))
                        => l_facies[prev] = f[m] }

\* lines 1256-1257: for each facies idx in turn, the sets whose number is a multiple of
\* idx + 1 are given that facies
CycleFacies(n) ==
    LET hits == { idx \in 1..Len(l_facies) : n % idx = 0 }
    IN  l_facies[CHOOSE idx \in hits : \A j \in hits : j <= idx]

\* lines 1243-1263: the facies of the sets; with a table, the draws of lines 1250-1254
\* are all overwritten by the pass of idx = 0 in lines 1256-1257
DipFacies ==
    /\ call.fn = "dip_sets" /\ call.at = "facies"
    /\ IF call.ll_altfacies # <<>>
       THEN \E f \in AltDraws :
               call' = [call EXCEPT !.at = "returned", !.done = TRUE,
                                    !.fac_set = [v \in Voxels |-> CycleFacies(call.set_no[v])]]
       ELSE \E f \in [SetNumbers -> Range(l_facies)] :
               call' = [call EXCEPT !.at = "returned", !.done = TRUE,
                                    !.fac_set = [v \in Voxels |-> f[call.set_no[v]]]]
    /\ UNCHANGED <<facies_vars, runs>>

NextDip == DipPlanes \/ DipNormal \/ DipPlanepoint \/ DipFacies

SpecDip == InitDip /\ [][NextDip]_vars

\* C22: called by gen_channel with the centreline, dip_sets completes without an error
C22_ChannelDipSetsComplete ==
    (call.fn = "dip_sets" /\ call.caller = "gen_channel" /\ call.done)
        => call.raised = ""

\* what does hold: dip_sets returns to no caller but gen_trough
DipSetsReturnsToTrough ==
    (call.fn = "dip_sets" /\ call.done /\ call.raised = "")
        => call.caller = "gen_trough"

\* the number of the first interval of cell v: the least i with v on or beyond plane i
\* and before plane i + 1, counted from 1 as planepoint does; 0 if there is none or v
\* is not selected
FirstInterval(v) ==
    LET between == { i \in 1..(Len(call.xpvec) - 1) :
                       /\ PlaneSide(call.xpvec, call.x_dip, call.znow, i, v) <= 0
                       /\ PlaneSide(call.xpvec, call.x_dip, call.znow, i + 1, v) > 0 }
    IN  IF v \in call.select /\ between # {}
        THEN CHOOSE i \in between : \A j \in between : i <= j
        ELSE 0

\* C23: planepoint gives every selected cell the number of its first interval, and the
\* cells without an interval (before the first plane, beyond the last one, or not
\* selected) have the number 0 in the set numbers dip_sets hands back
C23_FirstIntervalOrZero ==
    (call.fn = "dip_sets" /\ call.at \in {"facies", "returned"})
        => \A v \in Voxels :
              /\ call.planepoint[v] = FirstInterval(v)
              /\ FirstInterval(v) = 0 => call.set_no[v] = 0

\* what does hold: cells between two planes get the number of their interval, and the
\* numbers handed back start at 2 and keep the order of the numbers of planepoint
SetNumbersFromTwo ==
    (call.fn = "dip_sets" /\ call.at \in {"facies", "returned"})
        => /\ \A v \in Voxels :
                 /\ FirstInterval(v) # 0 => call.planepoint[v] = FirstInterval(v)
                 /\ call.set_no[v] >= 2
           /\ \E v \in Voxels : call.set_no[v] = 2
           /\ \A v, w \in Voxels :
                 (call.planepoint[v] < call.planepoint[w])
                     <=> (call.set_no[v] < call.set_no[w])

\* the facies of the cells of set n in the array handed back
FaciesOfSet(n) == { call.fac_set[v] : v \in { w \in Voxels : call.set_no[w] = n } }

\* position of a facies in l_facies
FaciesIndex(f) == CHOOSE i \in 1..Len(l_facies) : l_facies[i] = f

\* C24: in the arrays dip_sets returns, the cells of one set have one facies, and with
\* an alternation table the facies of every set is listed in the row of the table that
\* belongs to the facies of the set before it
C24_FaciesFollowTable ==
    (call.fn = "dip_sets" /\ call.at = "returned")
        => /\ \A n \in SetNumbers : Cardinality(FaciesOfSet(n)) = 1
           /\ call.ll_altfacies # <<>> =>
                 \A m, n \in SetNumbers :
                    (m < n /\ \A o \in SetNumbers : ~(m < o /\ o < n))
                        => \A fm \in FaciesOfSet(m), fn \in FaciesOfSet(n) :
                              fn \in Range(call.ll_altfacies[FaciesIndex(fm)])

\* what does hold: one facies per set; with a table it is the facies whose position
\* in l_facies is the largest divisor of the set number
OneFaciesPerSet ==
    (call.fn = "dip_sets" /\ call.at = "returned")
        => /\ \A n \in SetNumbers : Cardinality(FaciesOfSet(n)) = 1
           /\ call.ll_altfacies # <<>> =>
                 \A v \in Voxels : call.fac_set[v] = CycleFacies(call.set_no[v])

----------------------------------------------------------------------------
\* gen_channel, the start positions and the centrelines (lines 855-886, 963-965)

\* ch_par['r_mig'][0:2], the horizontal shift per vertical step
MigVectors == { <<DX, 0>>, <<DX, DX>>, <<0, DX>> }

\* ferguson_channel(mg, h, k, ds, eps_factor, disp), lines 973-1054: the centreline
\* starts at (0, 0), is turned into the mean flow direction, moved in x by a draw of
\* its own (line 1033) and cut to the domain (lines 1037-1041), and moved in y by starty
\* (lines 1044-1051): its first point lies within one step ds of x = mg.ox, at a y of
\* its own. No argument of the call carries a start position
FergusonFirstPoints == { <<x, y>> : x \in 0..1, y \in -1..1 }

InitMigrate ==
    /\ FaciesIdle
    /\ runs = NoRuns
    /\ \E mig \in MigVectors, n \in 2..NZ :
          call = [fn |-> "gen_channel", at |-> "start", r_mig |-> mig, steps |-> n,
                  xstart |-> 0, ystart |-> 0, used |-> <<>>, aha |-> <<>>,
                  raised |-> "", done |-> FALSE]

\* lines 855-864: a start position is drawn for the one channel (channel_no = 1;
\* the row of the grid has yvec[0] = yvec[-1])
ChannelStart ==
    /\ call.fn = "gen_channel" /\ call.at = "start"
    /\ \E xs \in {-10, -5, 0} :
          call' = [call EXCEPT !.at = "levels", !.xstart = xs, !.ystart = 0]
    /\ UNCHANGED <<facies_vars, runs>>

\* lines 873-965, one pass of 'for znow in ...': the centreline comes from
\* ferguson_channel (line 886), then the start position is shifted (lines 964-965);
\* `used` lists the start positions of the passes, `aha` the first points of their
\* centrelines
ChannelLevel ==
    /\ call.fn = "gen_channel" /\ call.at = "levels"
    /\ \E p \in FergusonFirstPoints :
          LET last == Len(call.aha) + 1 = call.steps
          IN  call' = [call EXCEPT
                         !.used = Append(call.used, <<call.xstart, call.ystart>>),
                         !.aha = Append(call.aha, p),
                         !.xstart = call.xstart + call.r_mig[1],
                         !.ystart = call.ystart + call.r_mig[2],
                         !.at = IF last THEN "returned" ELSE "levels",
                         !.done = last]
    /\ UNCHANGED <<facies_vars, runs>>

NextMigrate == ChannelStart \/ ChannelLevel

SpecMigrate == InitMigrate /\ [][NextMigrate]_vars

\* C25: the centreline of a vertical step starts where the centreline of the step
\* before started, shifted by the migration vector
C25_CentrelinesMigrate ==
    call.fn = "gen_channel"
        => \A n \in 1..(Len(call.aha) - 1) :
              /\ call.aha[n + 1][1] = call.aha[n][1] + call.r_mig[1]
              /\ call.aha[n + 1][2] = call.aha[n][2] + call.r_mig[2]

\* what does hold: the start positions are shifted from step to step, and every
\* centreline starts at a point ferguson_channel draws, wherever the start position is
StartPositionsUnused ==
    call.fn = "gen_channel"
        => /\ \A n \in 1..(Len(call.used) - 1) :
                 /\ call.used[n + 1][1] = call.used[n][1] + call.r_mig[1]
                 /\ call.used[n + 1][2] = call.used[n][2] + call.r_mig[2]
           /\ \A n \in 1..Len(call.aha) : call.aha[n] \in FergusonFirstPoints

----------------------------------------------------------------------------
\* curve_interp (lines 1266-1304)

\* the longest polyline handed in
MaxPts == 4

\* polylines along the x axis (yc = 0): a first coordinate and the steps to the next
\* points, so that a segment is shorter or longer than the spacing
Polylines ==
    UNION { { [i \in 1..n |-> x0 + SumTo(d, i - 1)] : d \in [1..(n - 1) -> {0, 6, 11}] } :
            n \in 1..MaxPts, x0 \in {-1, 0, 1, 5} }

\* line 1282-1284: t = np.arange(xc[0], len(xc), spacing * 0.1) and the curve at t;
\* with a spacing of 10 or 20, t holds whole numbers, np.interp gives the point t, and
\* the first point for t < 0
Densified(xc, spacing) ==
    LET t == Arange(xc[1], Len(xc), spacing \div 10)
    IN  [i \in 1..Len(t) |-> xc[Max2(t[i], 0) + 1]]

\* line 1290: total_dist after the segments ic+1 .. j of the curve (indices from 0)
RECURSIVE total_dist(_, _, _)
total_dist(xc, ic, j) ==
    IF j <= ic THEN 0 ELSE total_dist(xc, ic, j - 1) + Abs(xc[j + 1] - xc[j])

InitCurve ==
    /\ FaciesIdle
    /\ runs = NoRuns
    /\ \E xc \in Polylines, sp \in {10, 20} :
          call = [fn |-> "curve_interp", at |-> "start", points |-> xc, spacing |-> sp,
                  xc |-> <<>>, tol |-> 0, ic |-> 0, j |-> 0, j_bound |-> FALSE,
                  idx |-> <<>>, passes |-> 0, raised |-> "", done |-> FALSE]

\* lines 1282-1286
CurveDensify ==
    /\ call.fn = "curve_interp" /\ call.at = "start"
    /\ call' = [call EXCEPT !.at = "while",
                            !.xc = Densified(call.points, call.spacing),
                            !.tol = call.spacing, !.ic = 0, !.idx = <<0>>]
    /\ UNCHANGED <<facies_vars, runs>>

\* lines 1287-1294, one pass of the while loop: the for loop stops at the first j with
\* total_dist > tol, or runs out and leaves j at its last value; if range(ic+1, len(xc))
\* is empty, j keeps the value of the pass before, or is not bound at all. `passes` is
\* the number of passes so far, odd or even
CurveWhilePass ==
    /\ call.fn = "curve_interp" /\ call.at = "while"
    /\ call.ic < Len(call.xc)
    /\ LET js == (call.ic + 1)..(Len(call.xc) - 1)
           over == { j \in js : total_dist(call.xc, call.ic, j) > call.tol }
       IN  IF js = {} /\ ~call.j_bound
           THEN call' = [call EXCEPT !.at = "raised", !.raised = "UnboundLocalError",
                                     !.done = TRUE]
           ELSE LET jj == IF js = {} THEN call.j
                          ELSE IF over = {} THEN Len(call.xc) - 1
                          ELSE CHOOSE j \in over : \A k \in over : j <= k
                IN  call' = [call EXCEPT
                               !.idx = IF over = {} THEN call.idx ELSE Append(call.idx, jj),
                               !.j = jj, !.j_bound = TRUE,
                               !.ic = jj + 1,
                               !.passes = (call.passes + 1) % 2]
    /\ UNCHANGED <<facies_vars, runs>>

\* lines 1296-1304: xn = xc[idx], yn = yc[idx]
CurveReturn ==
    /\ call.fn = "curve_interp" /\ call.at = "while"
    /\ call.ic >= Len(call.xc)
    /\ IF call.xc = <<>>
       THEN call' = [call EXCEPT !.at = "raised", !.raised = "IndexError", !.done = TRUE]
       ELSE call' = [call EXCEPT !.at = "returned", !.done = TRUE]
    /\ UNCHANGED <<facies_vars, runs>>

NextCurve == CurveDensify \/ CurveWhilePass \/ CurveReturn

\* the interpreter runs the next statement whenever there is one
SpecCurve == InitCurve /\ [][NextCurve]_vars /\ WF_vars(NextCurve)

\* the indices of the points returned: from 0, strictly increasing
IndicesIncrease ==
    /\ call.idx # <<>> /\ call.idx[1] = 0
    /\ \A n \in 1..(Len(call.idx) - 1) : call.idx[n] < call.idx[n + 1]

\* C27: for every polyline of at least one point and every positive spacing,
\* curve_interp comes to an end, and the points it returns are at strictly increasing
\* indices of the densified curve, the first of them 0. The formula is the first half
\* in its weakest reading, an end by return or by exception; IndicesInOrder is the
\* second half
C27_CurveInterpTerminates ==
    <>(call.fn = "curve_interp" /\ call.done)

\* what does hold: the indices collected are in order at every moment
IndicesInOrder ==
    (call.fn = "curve_interp" /\ call.at # "start") => IndicesIncrease

\* a pass of the while loop that leaves ic where it is: the threshold was passed at the
\* last point but one, range(ic+1, len(xc)) is empty and j still holds that index
PassWithoutProgress ==
    /\ call.fn = "curve_interp" /\ call.at = "while"
    /\ call.ic = Len(call.xc) - 1
    /\ call.j_bound /\ call.j + 1 = call.ic

\* what does hold as well: the loop ends unless it reaches such a pass
TerminatesUnlessStuck ==
    <>(call.fn = "curve_interp" /\ (call.done \/ PassWithoutProgress))

----------------------------------------------------------------------------
\* main(): facies(), then heterogeneity(), then the outputs (lines 35-59)

InitMain ==
    /\ FaciesIdle
    /\ runs = NoRuns
    /\ \E fa \in BOOLEAN, fh \in BOOLEAN, hl \in {"facies", "internal"}, ff \in FaciesFields :
          call = [fn |-> "main", at |-> "facies", flag_anisotropy |-> fa,
                  flag_het |-> fh, hetlev |-> hl, fac |-> ff,
                  props |-> <<>>, raised |-> "", done |-> FALSE]

\* line 37 and lines 252-262: facies() wraps its arrays in a list, six of them with
\* run['flag_anisotropy'], mat and fac without
MainFacies ==
    /\ call.fn = "main" /\ call.at = "facies"
    /\ call' = [call EXCEPT
                  !.at = "heterogeneity",
                  !.props = IF call.flag_anisotropy
                            THEN <<"azim", "mat", "dip", "fac", "ae_arr", "seq_arr">>
                            ELSE <<"mat", "fac">>]
    /\ UNCHANGED <<facies_vars, runs>>

\* line 40 and heterogeneity(): line 277 unpacks props into six names; line 365 reads
\* aei, which only the loop of hetlev 'internal' binds; lines 449-450 return the
\* dictionary of the ten fields
MainHeterogeneity ==
    /\ call.fn = "main" /\ call.at = "heterogeneity"
    /\ IF Len(call.props) # 6
       THEN call' = [call EXCEPT !.at = "raised", !.raised = "ValueError", !.done = TRUE]
       ELSE IF call.flag_het /\ call.hetlev = "facies"
       THEN call' = [call EXCEPT !.at = "raised", !.raised = "UnboundLocalError",
                                 !.done = TRUE]
       ELSE call' = [call EXCEPT
                       !.at = "output",
                       !.props = call.props \o <<"k_iso", "ktensors", "poros", "anirat">>]
    /\ UNCHANGED <<facies_vars, runs>>

\* lines 42-59: the fields are read from the dictionary and saved
MainOutput ==
    /\ call.fn = "main" /\ call.at = "output"
    /\ call' = [call EXCEPT !.at = "saved", !.done = TRUE]
    /\ UNCHANGED <<facies_vars, runs>>

NextMain == MainFacies \/ MainHeterogeneity \/ MainOutput

SpecMain == InitMain /\ [][NextMain]_vars

\* C29: with the anisotropy flag on or off, heterogeneity() takes the properties
\* facies() returns: a run whose heterogeneity settings are sound (the homogeneous case)
\* has no error when main() is through with it
C29_PipelineReachesOutput ==
    (call.fn = "main" /\ call.done /\ ~call.flag_het) => call.raised = ""

\* what does hold: the same with the anisotropy flag on
PipelineWithAnisotropy ==
    (call.fn = "main" /\ call.done /\ ~call.flag_het /\ call.flag_anisotropy)
        => call.raised = "" /\ Len(call.props) = 10

----------------------------------------------------------------------------
\* Grid (grid.py): vec, meshup, get_lx, get_ly, get_lz, idx_z

\* Grid.__init__: origins, spacings and counts
InitGrid ==
    /\ FaciesIdle
    /\ runs = NoRuns
    /\ \E o \in [{"x", "y", "z"} -> 0..2], d \in [{"x", "z"} -> 1..2],
          n \in [{"x", "y", "z"} -> 1..3] :
          call = [fn |-> "Grid", at |-> "vec",
                  ox |-> o["x"], oy |-> o["y"], oz |-> o["z"],
                  dx |-> d["x"], dy |-> d["x"], dz |-> d["z"],
                  nx |-> n["x"], ny |-> n["y"], nz |-> n["z"],
                  xv |-> <<>>, yv |-> <<>>, zv |-> <<>>, shape |-> <<>>, idx |-> <<>>,
                  raised |-> "", done |-> FALSE]

\* get_lx, get_ly, get_lz (lines 343-362) of the grid gr
GridLengths(gr) ==
    [lx |-> gr.dx * gr.nx - gr.ox, ly |-> gr.dy * gr.ny - gr.oy, lz |-> gr.dz * gr.nz - gr.oz]

\* vec, lines 211-220; the coordinates are held twice their value, so that dx / 2 and
\* ly / 2 are whole numbers
GridVec ==
    /\ call.fn = "Grid" /\ call.at = "vec"
    /\ LET l == GridLengths(call)
           zv == Arange(2 * call.oz, 2 * (l.lz + call.oz), 2 * call.dz)
       IN  call' = [call EXCEPT
                      !.at = "meshup",
                      !.xv = IF call.ox # 0
                             THEN Arange(2 * call.ox, 2 * (l.lx + call.ox), 2 * call.dx)
                             ELSE Arange(call.dx, 2 * l.lx, 2 * call.dx),
                      !.yv = IF call.ox # 0
                             THEN Arange(2 * call.oy, 2 * (l.ly + call.oy), 2 * call.dy)
                             ELSE Arange(call.dy - l.ly, l.ly, 2 * call.dy),
                      !.zv = zv]
    /\ UNCHANGED <<facies_vars, runs>>

\* meshup, lines 294-297: the arrays have one entry per triple of coordinates
GridMeshup ==
    /\ call.fn = "Grid" /\ call.at = "meshup"
    /\ call' = [call EXCEPT !.at = "idx_z",
                            !.shape = <<Len(call.xv), Len(call.yv), Len(call.zv)>>]
    /\ UNCHANGED <<facies_vars, runs>>

\* idx_z, lines 437-438, of every z coordinate of vec: np.around((zval - oz) / dz)
GridIdxZ ==
    /\ call.fn = "Grid" /\ call.at = "idx_z"
    /\ call' = [call EXCEPT
                  !.at = "returned", !.done = TRUE,
                  !.idx = [k \in 1..Len(call.zv) |->
                              RoundHalfEven(call.zv[k] - 2 * call.oz, 2 * call.dz)]]
    /\ UNCHANGED <<facies_vars, runs>>

NextGrid == GridVec \/ GridMeshup \/ GridIdxZ

SpecGrid == InitGrid /\ [][NextGrid]_vars

\* idx_z gives the k-th z coordinate the index k (counted from 0)
IdxZInverts == \A k \in 1..Len(call.idx) : call.idx[k] = k - 1

\* C30: for every origin, spacing and counts, the coordinate vectors of vec have nx, ny
\* and nz entries, the arrays of meshup have the shape (nx, ny, nz), and idx_z maps the
\* k-th z coordinate to k
C30_VecHasGridCounts ==
    (call.fn = "Grid" /\ call.done)
        => /\ call.shape = <<call.nx, call.ny, call.nz>>
           /\ IdxZInverts

\* what does hold: the same for a grid whose origin is 0; and idx_z inverts the z
\* coordinates of every grid
VecOfGridAtZero ==
    (call.fn = "Grid" /\ call.done)
        => /\ IdxZInverts
           /\ (call.ox = 0 /\ call.oy = 0 /\ call.oz = 0)
                 => call.shape = <<call.nx, call.ny, call.nz>>
====
